---- MODULE Spec2Model ----
(***************************************************************************)
(* State-machine model of the GLaDOS orchestration engine                  *)
(* (glados/core/react_engine.py), of the publish/subscribe funnel of the   *)
(* input modules (glados/core/interfaces.py, glados/inputs) and of the     *)
(* tool adapters (glados/tools).                                           *)
(*                                                                         *)
(* The specifications share the variables:                                 *)
(*   Spec         message handling: emit -> agent query -> reply routing   *)
(*   SpecInit     GLaDOSReActEngine.initialize()                           *)
(*   SpecTool     ToolAdapter.execute() of the four adapters               *)
(*   SpecFactory  register / create / create_modules_from_config           *)
(*   SpecLife     start(), stop() of the engine, shutdown() of the         *)
(*                application; SpecLifeFair adds the event loop's fairness *)
(*   SpecCleanup  cleanup() of the objects that own a handle               *)
(*   SpecEmit     InputModule.subscribe_to_messages / emit_message         *)
(*   SpecListen   start_listening / stop_listening of the input modules    *)
(*   SpecWeb      WebInput: websocket connections, broadcast, replies      *)
(*   SpecTerm     TerminalInput: the input loop and the history            *)
(*   SpecOut      output modules: initialize, send_message, cleanup        *)
(***************************************************************************)
EXTENDS Integers, Sequences, FiniteSets, TLC

VARIABLES
    \* ---- engine state (react_engine.py:28-45)
    input_modules,      \* self.input_modules: names of the active input modules
    output_modules,     \* self.output_modules: names of the active output modules
    config_outputs,     \* config.inputs.<name>["outputs"], per input name
    \* ---- message handling
    tasks,              \* one record per emitted message, in emission order
    dispatched,         \* message ids in the order _send_response was entered
    \* ---- initialize()
    init_pc,            \* where initialize() stands
    init_result,        \* what initialize() returned: "none", "true", "false"
    llm,                \* self.llm: "none" or "built"
    agent,              \* self.agent: "none" or "built"
    tool_registry,      \* ToolAdapterFactory._registry of core/interfaces.py
    ir_hardware,        \* IS_RASPBERRY_PI and LGPIO_AVAILABLE
    tools_config,       \* config.tools: per tool, enabled and credentials given
    inputs_enabled,     \* input modules the configuration enables
    outputs_enabled,    \* output modules the configuration enables
    tool_adapters,      \* self.tool_adapters: per tool, built and its remote
    tools,              \* self.tools: the catalog handed to the agent
    tool_errors,        \* tools whose loading was logged as failed
    init_error,         \* the step whose exception initialize() caught
    factories_registry, \* ToolAdapterFactory._registry of core/factories
    init_false,         \* modules whose initialize() returned False
    \* ---- ToolAdapter.execute()
    tool_pc,            \* where the running execute() call stands
    call,               \* the adapter called and its keyword arguments
    validated,          \* outcome of the parameter validation of the call
    effects,            \* what the call did outside the process, in order
    result,             \* how the call ended, and the dict it returned
    tapo_client,        \* TapoAdapter.client is set
    \* ---- module factories (core/factories, core/interfaces)
    module_registry,    \* InputModuleFactory._registry: key -> class
    fac_config,         \* the inputs configuration handed to the factory
    fac_pc,             \* where create_modules_from_config stands
    fac_idx,            \* the configuration attribute it is looking at
    fac_modules,        \* the map it is building, then returns
    fac_seen,           \* per attribute, how its construction went
    last_create,        \* the last create() call and how it ended
    \* ---- start(), stop() of the engine and shutdown() of the application
    is_running,         \* GLaDOSReActEngine.is_running
    start_pc,           \* where the start() call that gathers stands
    start_tasks,        \* per input module, its start_listening() coroutine
    start_result,       \* how that start() call ended
    start_log,          \* per start() call since the last stop: modules started
    stop_pc,            \* where the stop() call that gathers stands
    stop_via,           \* who called it: "direct" or "shutdown" (wait_for)
    cleanup_tasks,      \* per module, its cleanup() coroutine
    stop_result,        \* how that stop() call ended
    stop_log,           \* the last stop() call: was running, modules cleaned
    app_pc,             \* GLaDOSApplication: new, running, stopping, stopped
    \* ---- cleanup() of the handle owners
    cln_attr,           \* per owner: the attribute holding its handle is set
    cln_handle,         \* per owner: its handle is "none", "open" or "closed"
    cln_releases,       \* per owner: close/delete calls made on its handle
    cln_calls,          \* per owner: cleanup() calls made
    cln_raised,         \* per owner: a cleanup() call raised
    \* ---- InputModule.emit_message
    message_handlers,   \* self._message_handlers, in subscription order
    emit_pc,            \* where emit_message stands
    emit_idx,           \* position of the loop in _message_handlers
    emit_msg,           \* the message being delivered
    handler_calls,      \* handler invocations of this emit_message, in order
    emit_result,        \* how emit_message ended
    \* ---- start_listening / stop_listening of the input modules
    lst_loops,          \* per module: live listening tasks or server threads
    lst_flag,           \* WakeWordInput.listening_for_wake_word (per module)
    lst_stopped,        \* per module: stop_listening returned since the last start
    lst_late,           \* per module: it emitted a message after that return
    lst_threads,        \* the threads the subscribed handler was invoked on
    \* ---- WebInput: websockets and broadcast_to_websockets
    websocket_connections, \* self.websocket_connections
    bc_pc,              \* where broadcast_to_websockets stands
    bc_origin,          \* the connection whose message the broadcast answers
    bc_start,           \* the connections registered when it was called
    bc_visited,         \* the connections its loop has been through
    bc_sent,            \* per connection: send_json calls of this broadcast
    bc_failed,          \* the connections whose send_json raised
    bc_result,          \* how the broadcast ended
    \* ---- TerminalInput: the loop, its history
    term_active,        \* TerminalInput.is_active
    term_handlers,      \* the handlers subscribed to the terminal's messages
    term_line,          \* the last line read, as typed
    term_calls,         \* handler invocations made for the last line read
    term_count,         \* lines read so far
    history,            \* TerminalInput.history
    history_size,       \* TerminalInput.history_size
    history_dropped,    \* entries _add_to_history removed from the history
    \* ---- output modules: is_active, send_message, cleanup
    out_active,         \* per output module: is_active
    out_cleaned,        \* per output module: cleanup() ran since initialize()
    out_sends,          \* per output module: send_message calls made
    out_last,           \* the last send_message call and how it ended
    \* ---- TapoAdapter instances and the module-level DEVICE_TYPE_MAPPING
    tapo_mapping,       \* the dict DEVICE_TYPE_MAPPING of tapo_adapter.py: device id -> type
    tapo_devices,       \* per TapoAdapter instance: the configuration its self.devices comes from
    tapo_last,          \* the last validate_parameters or execute call and what validation said
    \* ---- GLaDOSApplication.run and shutdown, the tasks of the event loop
    run_pc,             \* where GLaDOSApplication.run / shutdown stands
    shutdown_event,     \* GLaDOSApplication._shutdown_event is set
    app_tasks,          \* the tasks of the event loop that are not done
    typed,              \* lines typed at the terminal prompt so far
    exit_requested,     \* the terminal emitted terminal_exit_requested
    event_calls,        \* event handlers invoked with terminal_exit_requested
    stop_invoked,       \* shutdown() called engine.stop()
    cancelled,          \* the tasks shutdown() called cancel() on
    shutdown_result,    \* how shutdown() ended: none, returned, cancelled
    \* ---- WakeWordInput: wake-word detection and speech recording
    recording_speech,   \* WakeWordInput.recording_speech
    silence_frame_count,\* WakeWordInput.silence_frame_count
    wake_frames,        \* audio frames processed so far
    wake_msgs,          \* Messages emitted since the last wake-word detection
    wake_emitted        \* the last frame processed emitted a Message

msgVars == <<input_modules, output_modules, config_outputs, tasks, dispatched>>

initVars == <<init_pc, init_result, llm, agent, tool_registry, ir_hardware,
              tools_config, inputs_enabled, outputs_enabled, tool_adapters,
              tools, tool_errors, init_error, factories_registry, init_false>>

toolVars == <<tool_pc, call, validated, effects, result, tapo_client>>

facVars == <<module_registry, fac_config, fac_pc, fac_idx, fac_modules,
             fac_seen, last_create>>

lifeVars == <<is_running, start_pc, start_tasks, start_result, start_log,
              stop_pc, stop_via, cleanup_tasks, stop_result, stop_log, app_pc>>

clnVars == <<cln_attr, cln_handle, cln_releases, cln_calls, cln_raised>>

emitVars == <<message_handlers, emit_pc, emit_idx, emit_msg, handler_calls,
              emit_result>>

lstVars == <<lst_loops, lst_flag, lst_stopped, lst_late, lst_threads>>

webVars == <<websocket_connections, bc_pc, bc_origin, bc_start, bc_visited,
             bc_sent, bc_failed, bc_result>>

termVars == <<term_active, term_handlers, term_line, term_calls, term_count,
              history, history_size, history_dropped>>

outVars == <<out_active, out_cleaned, out_sends, out_last>>

tapoVars == <<tapo_mapping, tapo_devices, tapo_last>>

appVars == <<run_pc, shutdown_event, app_tasks, typed, exit_requested,
             event_calls, stop_invoked, cancelled, shutdown_result>>

wakeVars == <<recording_speech, silence_frame_count, wake_frames, wake_msgs, wake_emitted>>

auxVars == <<tapoVars, appVars, wakeVars>>

\* the variables of the input and output modules themselves
modVars == <<lstVars, webVars, termVars, outVars, auxVars>>

\* the variables of the engine, the factories, the tools and emit_message
coreVars == <<msgVars, initVars, toolVars, facVars, lifeVars, clnVars,
              emitVars>>

\* the variables the engine, message and tool actions leave alone
extVars == <<facVars, lifeVars, clnVars, emitVars, modVars>>

\* the variables the factory actions leave alone
notFacVars == <<msgVars, initVars, toolVars, lifeVars, clnVars, emitVars,
               modVars>>

\* the variables the start, stop and shutdown actions leave alone
notLifeVars == <<msgVars, initVars, toolVars, facVars, clnVars, emitVars,
                modVars>>

\* the variables the cleanup actions leave alone
notClnVars == <<msgVars, initVars, toolVars, facVars, lifeVars, emitVars,
               modVars>>

\* the variables the emit_message actions leave alone
notEmitVars == <<msgVars, initVars, toolVars, facVars, lifeVars, clnVars,
                modVars>>

\* the variables the start_listening / stop_listening actions leave alone
notLstVars == <<coreVars, webVars, termVars, outVars,
                 auxVars>>

\* the variables the websocket actions leave alone
notWebVars == <<coreVars, lstVars, termVars, outVars,
                 auxVars>>

\* the variables the terminal actions leave alone
notTermVars == <<coreVars, lstVars, webVars, outVars,
                 auxVars>>

\* the variables the output module actions leave alone
notOutVars == <<coreVars, lstVars, webVars, termVars,
                 auxVars>>
\* the variables of the engine and of the input and output modules
oldVars == <<coreVars, lstVars, webVars, termVars, outVars>>

\* the variables the TapoAdapter actions leave alone
notTapoVars == <<oldVars, appVars, wakeVars>>

\* the variables the application actions leave alone
notAppVars == <<oldVars, tapoVars, wakeVars>>

\* the variables the wake-word audio actions leave alone
notWakeVars == <<oldVars, tapoVars, appVars>>


vars == <<input_modules, output_modules, config_outputs, tasks, dispatched,
          init_pc, init_result, llm, agent, tool_registry, ir_hardware,
          tools_config, inputs_enabled, outputs_enabled, tool_adapters,
          tools, tool_errors, init_error, factories_registry, init_false,
          tool_pc, call, validated, effects, result, tapo_client,
          module_registry, fac_config, fac_pc, fac_idx, fac_modules,
          fac_seen, last_create,
          is_running, start_pc, start_tasks, start_result, start_log,
          stop_pc, stop_via, cleanup_tasks, stop_result, stop_log, app_pc,
          cln_attr, cln_handle, cln_releases, cln_calls, cln_raised,
          message_handlers, emit_pc, emit_idx, emit_msg, handler_calls,
          emit_result,
          lst_loops, lst_flag, lst_stopped, lst_late, lst_threads,
          websocket_connections, bc_pc, bc_origin, bc_start, bc_visited,
          bc_sent, bc_failed, bc_result,
          term_active, term_handlers, term_line, term_calls, term_count,
          history, history_size, history_dropped,
          out_active, out_cleaned, out_sends, out_last,
          tapo_mapping, tapo_devices, tapo_last,
          run_pc, shutdown_event, app_tasks, typed, exit_requested, event_calls, stop_invoked, cancelled, shutdown_result,
          recording_speech, silence_frame_count, wake_frames, wake_msgs, wake_emitted>>

-----------------------------------------------------------------------------
(* Bounds *)

\* how many messages the input modules emit in one behaviour
MaxMsgs == 2

\* how many start() calls are made between two stop() calls
MaxStarts == 2

\* how many times cleanup() is called on one owner
MaxCleanups == 2

\* how many handlers subscribe to one input module
MaxHandlers == 3

\* how many listening tasks or threads one input module can have at once
MaxLoops == 2

\* send_message calls made on one output module
MaxSends == 2

\* lines the terminal loop reads
MaxLines == 2

\* audio frames the wake-word loop processes
MaxFrames == 7

\* lines typed at the prompt while the application runs
MaxTyped == 3

\* handlers subscribed to the terminal's messages
MaxSubscribers == 2

\* the largest history_size configured
MaxHistorySize == 2

\* entries dropped from the terminal history
MaxDrops == 2

-----------------------------------------------------------------------------
(* Names fixed by the source *)

InputNames == {"wake_word", "discord", "terminal", "web"}

OutputNames == {"tts_glados", "terminal_output"}

\* dict insertion order of self.output_modules (tts_glados is created first)
OutputOrder == <<"tts_glados", "terminal_output">>

\* MessageType values
TEXT == "text"

VOICE == "voice"

ERROR == "error"

\* an input module's configuration without an `outputs:` key
NoEntry == [present |-> FALSE, names |-> <<>>]

Entry(names) == [present |-> TRUE, names |-> names]

NoReply == [content |-> "none", message_type |-> "none", source |-> "none",
            metadata |-> "none"]

\* the values an `outputs:` entry of an input module's configuration takes
OutputsEntries ==
    {NoEntry, Entry(<<"terminal_output">>),
     Entry(<<"tts_glados", "terminal_output">>)}

Range(s) == {s[i] : i \in 1..Len(s)}

\* the subsequence of s whose elements are in S
RECURSIVE Filter(_, _)
Filter(s, S) ==
    IF s = <<>> THEN <<>>
    ELSE IF Head(s) \in S THEN <<Head(s)>> \o Filter(Tail(s), S)
         ELSE Filter(Tail(s), S)

ToolNames == {"tapo", "ir_osram", "ir_yamaha", "weather"}

\* the order config.tools.items() yields the tools in
ToolOrder == <<"tapo", "ir_osram", "ir_yamaha", "weather">>

IRTools == {"ir_osram", "ir_yamaha"}

\* inputs/input_registry.py and outputs/output_registry.py register these on
\* import; discord is not registered
InputRegistry == {"wake_word", "terminal", "web"}

OutputRegistry == {"tts_glados", "terminal_output"}

NoAdapter == [built |-> FALSE, remote |-> FALSE]

\* no execute() call made yet
NoCall == [adapter |-> "none", params |-> [action |-> "none"]]

NoResult == [status |-> "none", success |-> FALSE, error |-> ""]

\* the tool adapters at rest
ToolsIdle ==
    /\ tool_pc = "idle"
    /\ call = NoCall
    /\ validated = "none"
    /\ effects = <<>>
    /\ result = NoResult
    /\ tapo_client = FALSE

\* configuration attributes create_modules_from_config walks, in dir() order
FacAttrs == <<"terminal", "wake_word", "web">>

\* classes that can be registered
Classes == {"TerminalInput", "WebInput"}

NoInstance == [class |-> "none", name |-> "none", config |-> "none",
               initialized |-> FALSE]

NoCreate == [key |-> "none", name |-> "none", config |-> "none",
             status |-> "none", constructed |-> FALSE,
             instance |-> NoInstance]

\* the factories before any registration or call
FactoriesIdle ==
    /\ module_registry = [k \in Range(FacAttrs) |-> "none"]
    /\ fac_config = [a \in Range(FacAttrs) |-> [enabled |-> FALSE, type |-> a]]
    /\ fac_pc = "idle"
    /\ fac_idx = 0
    /\ fac_modules = [a \in Range(FacAttrs) |-> NoInstance]
    /\ fac_seen = [a \in Range(FacAttrs) |-> "none"]
    /\ last_create = NoCreate

\* the last stop() call before any was made
NoStop == [was_running |-> FALSE, invoked |-> {}]

\* the engine as constructed, never started (react_engine.py:40)
LifeIdle ==
    /\ is_running = FALSE
    /\ start_pc = "idle"
    /\ start_tasks = [m \in InputNames |-> "none"]
    /\ start_result = "none"
    /\ start_log = <<>>
    /\ stop_pc = "idle"
    /\ stop_via = "none"
    /\ cleanup_tasks = [m \in InputNames \cup OutputNames |-> "none"]
    /\ stop_result = "none"
    /\ stop_log = NoStop
    /\ app_pc = "new"

\* the objects that own a hardware or library handle, and one that owns none
CleanupOwners == {"ir_osram", "ir_yamaha", "wake_word", "weather"}

\* owners as constructed: no handle opened, cleanup never called
CleanupIdle ==
    /\ cln_attr = [o \in CleanupOwners |-> FALSE]
    /\ cln_handle = [o \in CleanupOwners |-> "none"]
    /\ cln_releases = [o \in CleanupOwners |-> 0]
    /\ cln_calls = [o \in CleanupOwners |-> 0]
    /\ cln_raised = [o \in CleanupOwners |-> FALSE]

\* an input module as constructed: nobody subscribed (interfaces.py:56)
EmitIdle ==
    /\ message_handlers = <<>>
    /\ emit_pc = "idle"
    /\ emit_idx = 0
    /\ emit_msg = "none"
    /\ handler_calls = <<>>
    /\ emit_result = "none"

\* the input modules as constructed: nothing listens
ListenIdle ==
    /\ lst_loops = [m \in InputNames |-> 0]
    /\ lst_flag = [m \in InputNames |-> FALSE]
    /\ lst_stopped = [m \in InputNames |-> FALSE]
    /\ lst_late = [m \in InputNames |-> FALSE]
    /\ lst_threads = {}

\* the websockets that may connect to the web module
Conns == {"ws1", "ws2", "ws3"}

\* WebInput as constructed: no connection, no broadcast (web_input.py:51)
WebIdle ==
    /\ websocket_connections = {}
    /\ bc_pc = "idle"
    /\ bc_origin = "none"
    /\ bc_start = {}
    /\ bc_visited = {}
    /\ bc_sent = [c \in Conns |-> 0]
    /\ bc_failed = {}
    /\ bc_result = "none"

\* config.get('history_size', 100)
DefaultHistorySize == 100

\* TerminalInput as constructed (terminal_input.py:26-36), history_size at
\* its default
TermIdle ==
    /\ term_active = FALSE
    /\ term_handlers = <<>>
    /\ term_line = <<>>
    /\ term_calls = <<>>
    /\ term_count = 0
    /\ history = <<>>
    /\ history_size = DefaultHistorySize
    /\ history_dropped = 0

\* the last send_message call before any was made
NoSend == [module |-> "none", returned |-> FALSE, rendered |-> FALSE,
           raised |-> FALSE, active |-> FALSE, cleaned |-> FALSE]

\* the output modules as constructed (interfaces.py:119-122)
OutIdle ==
    /\ out_active = [m \in OutputNames |-> FALSE]
    /\ out_cleaned = [m \in OutputNames |-> FALSE]
    /\ out_sends = [m \in OutputNames |-> 0]
    /\ out_last = NoSend

\* the TapoAdapter objects constructed in one process
TapoInstances == {"first", "second"}

\* no call made yet on a TapoAdapter
NoTapoCall == [instance |-> "none", op |-> "none", device_name |-> "none",
               action |-> "none", valid |-> FALSE]

\* tapo_adapter.py as imported: DEVICE_TYPE_MAPPING = {} (line 40), no
\* TapoAdapter constructed
TapoIdle ==
    /\ tapo_mapping = <<>>
    /\ tapo_devices = [a \in TapoInstances |-> "none"]
    /\ tapo_last = NoTapoCall

\* the task asyncio.run created for main(), which runs run() and shutdown()
MainTask == "main"

\* a GLaDOSApplication as constructed (main.py:26-31): run() not called
AppIdle ==
    /\ run_pc = "new"
    /\ shutdown_event = FALSE
    /\ app_tasks = {MainTask}
    /\ typed = 0
    /\ exit_requested = FALSE
    /\ event_calls = 0
    /\ stop_invoked = FALSE
    /\ cancelled = {}
    /\ shutdown_result = "none"

\* a WakeWordInput as constructed: detection mode, nothing processed
WakeIdle ==
    /\ recording_speech = FALSE
    /\ silence_frame_count = 0
    /\ wake_frames = 0
    /\ wake_msgs = 0
    /\ wake_emitted = FALSE

\* the state added for the tools, the wake word and the application as constructed
AuxIdle == TapoIdle /\ AppIdle /\ WakeIdle

\* the input and output modules as constructed
ModulesIdle == ListenIdle /\ WebIdle /\ TermIdle /\ OutIdle /\ AuxIdle

-----------------------------------------------------------------------------
(* Input modules: who emits, and how *)

\* message_type of the GLaDOSMessage each input module builds
MessageTypeOf(src) == IF src = "wake_word" THEN VOICE ELSE TEXT

\* terminal and wake-word emit from one loop that awaits emit_message, which
\* awaits the handler: the next message is emitted after the handler returned.
\* The web routes and the discord events run one task per request.
SequentialSources == {"terminal", "wake_word"}

\* the metadata dict each input module gives the GLaDOSMessage it builds
\* (for web: the one of the websocket route)
OriginalMetadata(src) ==
    IF src = "terminal"
    THEN [method |-> "terminal_input", timestamp |-> "now"]
    ELSE IF src = "wake_word"
    THEN [confidence |-> "high", language |-> "fr", method |-> "wake_word_stt"]
    ELSE IF src = "web"
    THEN [method |-> "websocket", client_id |-> "client_1", timestamp |-> "now"]
    ELSE [discord_user |-> "user", discord_user_id |-> "uid",
          discord_channel |-> "channel", discord_channel_id |-> "cid",
          discord_guild |-> "DM", timestamp |-> "now",
          original_message |-> "discord_message"]

\* the input modules that define send_response(response, metadata)
DefinesSendResponse == {"discord"}

Running(src) == {i \in 1..Len(tasks) : tasks[i].source = src /\ tasks[i].pc # "done"}

-----------------------------------------------------------------------------
(* GLaDOSReActEngine._process_with_agent *)

\* agent.run raising is caught here and turned into an apology string: the
\* caller sees a normal return in both cases
ProcessWithAgent(outcome) ==
    IF outcome = "raise"
    THEN [raised |-> FALSE, response |-> "Je n'ai pas pu traiter votre demande"]
    ELSE [raised |-> FALSE, response |-> "answer"]

\* the reply _handle_input_message builds from what _process_with_agent did
ReplyMessage(src, r) ==
    IF r.raised
    THEN [content |-> "Desole, j'ai rencontre une erreur", message_type |-> ERROR,
          source |-> "glados_engine", metadata |-> "none"]
    ELSE [content |-> r.response, message_type |-> TEXT,
          source |-> "glados_engine",
          metadata |-> [original_source |-> src,
                        original_type |-> MessageTypeOf(src)]]

-----------------------------------------------------------------------------
(* GLaDOSReActEngine._send_response: the output modules a reply goes to *)

SpecificOutputs(original_source) ==
    IF original_source = "wake_word"
    THEN Filter(<<"tts_glados", "terminal_output">>, output_modules)
    ELSE IF original_source = "terminal"
    THEN Filter(<<"terminal_output", "tts_glados">>, output_modules)
    ELSE IF original_source = "web"
    THEN Filter(<<"terminal_output">>, output_modules)
    ELSE <<>>

OutputModulesToUse(original_source) ==
    IF SpecificOutputs(original_source) # <<>>
    THEN SpecificOutputs(original_source)
    ELSE Filter(OutputOrder, output_modules)

\* the task once the list of output modules is known and the loop starts
StartSending(t) ==
    LET sel == OutputModulesToUse(t.source) IN
    [t EXCEPT !.selected = sel, !.targets = sel,
              !.pc = IF sel = <<>> THEN "done" ELSE "send"]

\* a mutant: the loop stops at the first send_message that raises
AfterSendRaisedAbort(t) ==
    [t EXCEPT !.invoked = Append(@, Head(t.targets)),
              !.failed = @ \cup {Head(t.targets)},
              !.targets = <<>>, !.escaped = TRUE, !.pc = "done"]

\* send_message raised: the except clause logs and the loop goes on
AfterSendRaised(t) ==
    [t EXCEPT !.invoked = Append(@, Head(t.targets)),
              !.failed = @ \cup {Head(t.targets)},
              !.targets = Tail(@),
              !.pc = IF Tail(t.targets) = <<>> THEN "done" ELSE "send"]

AfterSendReturned(t) ==
    [t EXCEPT !.invoked = Append(@, Head(t.targets)),
              !.targets = Tail(@),
              !.pc = IF Tail(t.targets) = <<>> THEN "done" ELSE "send"]

-----------------------------------------------------------------------------
(* Actions of message handling *)

Outcomes == {"ok", "raise"}

\* an input module builds a GLaDOSMessage and awaits emit_message, which awaits
\* _handle_input_message, which awaits _process_with_agent -> agent.run
EmitMessage(src) ==
    /\ Len(tasks) < MaxMsgs
    /\ src \in input_modules
    /\ src \in SequentialSources => Running(src) = {}
    /\ tasks' = Append(tasks,
           [source |-> src, pc |-> "agent", agent |-> "none", reply |-> NoReply,
            selected |-> <<>>, targets |-> <<>>,
            invoked |-> <<>>, failed |-> {}, escaped |-> FALSE,
            metadata |-> OriginalMetadata(src), direct |-> <<>>])
    /\ UNCHANGED <<input_modules, output_modules, config_outputs, dispatched>>
    /\ UNCHANGED initVars
    /\ UNCHANGED toolVars
    /\ UNCHANGED extVars

\* agent.run returns or raises; the reply is built and _send_response entered
AgentReturns(i, outcome) ==
    /\ tasks[i].pc = "agent"
    /\ LET t == [tasks[i] EXCEPT
                    !.agent = outcome,
                    !.reply = ReplyMessage(tasks[i].source, ProcessWithAgent(outcome))]
       IN  tasks' = [tasks EXCEPT ![i] =
                IF t.source = "web" /\ "web" \in input_modules
                THEN [t EXCEPT !.pc = "web"]
                ELSE StartSending(t)]
    /\ dispatched' = Append(dispatched, i)
    /\ UNCHANGED <<input_modules, output_modules, config_outputs>>
    /\ UNCHANGED initVars
    /\ UNCHANGED toolVars
    /\ UNCHANGED extVars

\* send_response_to_web, inside its own try/except: whether it raises or not,
\* the routing goes on
SendResponseToWeb(i, outcome) ==
    /\ tasks[i].pc = "web"
    /\ outcome \in Outcomes
    /\ tasks' = [tasks EXCEPT ![i] = StartSending(
           [tasks[i] EXCEPT !.direct = Append(@,
               [callee |-> "send_response_to_web",
                args |-> <<tasks[i].reply.content>>])])]
    /\ UNCHANGED <<input_modules, output_modules, config_outputs, dispatched>>
    /\ UNCHANGED initVars
    /\ UNCHANGED toolVars
    /\ UNCHANGED extVars

\* one turn of the loop over output_modules_to_use
SendMessage(i, outcome) ==
    /\ tasks[i].pc = "send"
    /\ tasks' = [tasks EXCEPT ![i] =
            IF outcome = "raise" THEN AfterSendRaised(tasks[i])
            ELSE AfterSendReturned(tasks[i])]
    /\ UNCHANGED <<input_modules, output_modules, config_outputs, dispatched>>
    /\ UNCHANGED initVars
    /\ UNCHANGED toolVars
    /\ UNCHANGED extVars

Next ==
    \/ \E src \in InputNames : EmitMessage(src)
    \/ \E i \in 1..Len(tasks), o \in Outcomes : AgentReturns(i, o)
    \/ \E i \in 1..Len(tasks), o \in Outcomes : SendResponseToWeb(i, o)
    \/ \E i \in 1..Len(tasks), o \in Outcomes : SendMessage(i, o)

\* The engine after initialize(): terminal and web are up, with or without
\* wake_word and discord; any set of output modules may have come up. The configuration gives
\* every input module the same `outputs:` entry.
Init ==
    /\ input_modules \in {{"terminal", "web"}, InputNames}
    /\ output_modules \in SUBSET OutputNames
    /\ \E e \in OutputsEntries : config_outputs = [x \in InputNames |-> e]
    /\ tasks = <<>>
    /\ dispatched = <<>>
    /\ init_pc = "done"
    /\ init_result = "true"
    /\ llm = "built"
    /\ agent = "built"
    /\ tool_registry = {}
    /\ ir_hardware = FALSE
    /\ tools_config = [t \in ToolNames |->
                          [enabled |-> FALSE, credentials |-> TRUE]]
    /\ inputs_enabled = input_modules
    /\ outputs_enabled = output_modules
    /\ tool_adapters = [t \in ToolNames |-> NoAdapter]
    /\ tools = <<>>
    /\ tool_errors = {}
    /\ init_error = "none"
    /\ factories_registry = {}
    /\ init_false = {}
    /\ ToolsIdle
    /\ ModulesIdle
    /\ FactoriesIdle
    /\ LifeIdle
    /\ CleanupIdle
    /\ EmitIdle

Spec == Init /\ [][Next]_vars

-----------------------------------------------------------------------------
(* GLaDOSReActEngine.initialize() *)

\* the engine's maps and results before initialize() has run
EngineFresh ==
    /\ init_result = "none"
    /\ llm = "none"
    /\ agent = "none"
    /\ tool_adapters = [t \in ToolNames |-> NoAdapter]
    /\ tools = <<>>
    /\ tool_errors = {}
    /\ init_error = "none"
    /\ init_false = {}

\* Does the adapter's __init__ raise?  TapoAdapter raises ValueError without
\* email and password; the IR adapters and the weather adapter only log.
ConstructorRaises(name) ==
    name = "tapo" /\ ~tools_config[name].credentials

\* self.remote after __init__: IROsramAdapter builds its remote on a Raspberry
\* Pi with lgpio; IRYamahaAdapter builds it in initialize(), which
\* _initialize_tools never calls; the others have none.
RemoteAfterInit(name) ==
    name = "ir_osram" /\ ir_hardware

\* a mutant: the failure of one tool is not caught and leaves _initialize_tools
OnToolErrorPropagate(acc, name) ==
    [acc EXCEPT !.errors = @ \cup {name}, !.aborted = TRUE]

\* except Exception in the loop of _initialize_tools: log, go on
OnToolError(acc, name) ==
    [acc EXCEPT !.errors = @ \cup {name}]

\* one turn of the loop of _initialize_tools; bad is the tool, if any, whose
\* FunctionTool cannot be built (_create_llama_tool raises)
LoadTool(acc, name, bad) ==
    IF ~tools_config[name].enabled THEN acc
    ELSE IF name \notin tool_registry THEN OnToolError(acc, name)
    ELSE IF ConstructorRaises(name) THEN OnToolError(acc, name)
    ELSE LET built == [acc EXCEPT !.adapters[name] =
                          [built |-> TRUE, remote |-> RemoteAfterInit(name)]]
         IN  IF bad = name THEN OnToolError(built, name)
             ELSE [built EXCEPT !.tools = Append(@, name)]

RECURSIVE LoadTools(_, _, _)
LoadTools(names, acc, bad) ==
    IF names = <<>> \/ acc.aborted THEN acc
    ELSE LoadTools(Tail(names), LoadTool(acc, Head(names), bad), bad)

\* _initialize_input_modules / _initialize_output_modules: a module enters the
\* map when it is enabled, its type is registered and neither its constructor
\* nor its initialize() raises; faulty is the module, if any, that raises
ModulesUp(enabled, registry, faulty) ==
    {m \in enabled : m \in registry /\ m # faulty}

\* ToolAdapterFactory.register of core/interfaces.py, before initialize()
RegisterTool(t) ==
    /\ init_pc = "boot"
    /\ t \notin tool_registry
    /\ tool_registry' = tool_registry \cup {t}
    /\ UNCHANGED <<init_pc, init_result, llm, agent, ir_hardware, tools_config,
                   inputs_enabled, outputs_enabled, tool_adapters, tools,
                   tool_errors, init_error, factories_registry, init_false>>
    /\ UNCHANGED msgVars
    /\ UNCHANGED toolVars
    /\ UNCHANGED extVars

\* register_all_tools of tools/adapters/tool_registry.py, called by
\* ToolRegistry.initialize() at process start: it fills the registry of
\* core/factories/tool_factory.py
RegisterAllTools ==
    /\ init_pc = "boot"
    /\ factories_registry # ToolNames
    /\ factories_registry' = ToolNames
    /\ UNCHANGED <<init_pc, init_result, llm, agent, tool_registry, ir_hardware,
                   tools_config, inputs_enabled, outputs_enabled,
                   tool_adapters, tools, tool_errors, init_error, init_false>>
    /\ UNCHANGED msgVars
    /\ UNCHANGED toolVars
    /\ UNCHANGED extVars

\* a mutant: the exception of a step is logged and initialize() carries on
\* with the modules
StepRaisedIgnored(step) == [pc |-> "modules", result |-> "none"]

\* a step of initialize() raises: `except Exception as e:` logs and returns
\* False (react_engine.py:69-71)
StepRaised(step) == [pc |-> "done", result |-> "false"]

\* step 1: _initialize_llm; a raise leaves initialize() through its except
InitializeLLM(outcome) ==
    /\ init_pc = "boot"
    /\ IF outcome = "raise"
       THEN /\ init_pc' = StepRaised("llm").pc
            /\ init_result' = StepRaised("llm").result
            /\ init_error' = "llm"
            /\ llm' = llm
       ELSE /\ init_pc' = "tools"
            /\ init_result' = init_result
            /\ init_error' = init_error
            /\ llm' = "built"
    /\ UNCHANGED <<agent, tool_registry, ir_hardware, tools_config,
                   inputs_enabled, outputs_enabled, tool_adapters, tools,
                   tool_errors, factories_registry, init_false>>
    /\ UNCHANGED msgVars
    /\ UNCHANGED toolVars
    /\ UNCHANGED extVars

\* step 2: _initialize_tools
InitializeTools(bad) ==
    /\ init_pc = "tools"
    /\ LET acc == LoadTools(ToolOrder,
                     [adapters |-> tool_adapters, tools |-> tools,
                      errors |-> tool_errors, aborted |-> FALSE], bad)
       IN  /\ tool_adapters' = acc.adapters
           /\ tools' = acc.tools
           /\ tool_errors' = acc.errors
           /\ init_pc' = IF acc.aborted THEN "done" ELSE "agent"
           /\ init_result' = IF acc.aborted THEN "false" ELSE init_result
           /\ init_error' = IF acc.aborted THEN "tools" ELSE init_error
    /\ UNCHANGED <<llm, agent, tool_registry, ir_hardware, tools_config,
                   inputs_enabled, outputs_enabled, factories_registry,
                   init_false>>
    /\ UNCHANGED msgVars
    /\ UNCHANGED toolVars
    /\ UNCHANGED extVars

\* step 3: _initialize_agent
InitializeAgent(outcome) ==
    /\ init_pc = "agent"
    /\ IF outcome = "raise"
       THEN /\ init_pc' = StepRaised("agent").pc
            /\ init_result' = StepRaised("agent").result
            /\ init_error' = "agent"
            /\ agent' = agent
       ELSE /\ init_pc' = "modules"
            /\ init_result' = init_result
            /\ init_error' = init_error
            /\ agent' = "built"
    /\ UNCHANGED <<llm, tool_registry, ir_hardware, tools_config,
                   inputs_enabled, outputs_enabled, tool_adapters, tools,
                   tool_errors, factories_registry, init_false>>
    /\ UNCHANGED msgVars
    /\ UNCHANGED toolVars
    /\ UNCHANGED extVars

\* step 4: _initialize_modules, then return True; failing is the module, if
\* any, whose initialize() returns False: the value is not looked at
InitializeModules(faulty, failing) ==
    /\ init_pc = "modules"
    /\ input_modules' = ModulesUp(inputs_enabled, InputRegistry, faulty)
    /\ output_modules' = ModulesUp(outputs_enabled, OutputRegistry, faulty)
    /\ init_false' = {failing} \cap
                       (ModulesUp(inputs_enabled, InputRegistry, faulty)
                        \cup ModulesUp(outputs_enabled, OutputRegistry, faulty))
    /\ init_pc' = "done"
    /\ init_result' = "true"
    /\ UNCHANGED <<llm, agent, tool_registry, ir_hardware, tools_config,
                   inputs_enabled, outputs_enabled, tool_adapters, tools,
                   tool_errors, init_error, factories_registry>>
    /\ UNCHANGED <<config_outputs, tasks, dispatched>>
    /\ UNCHANGED toolVars
    /\ UNCHANGED extVars

NextInit ==
    \/ \E t \in ToolNames : RegisterTool(t)
    \/ \E o \in Outcomes : InitializeLLM(o)
    \/ \E bad \in ToolNames \cup {"none"} : InitializeTools(bad)
    \/ \E o \in Outcomes : InitializeAgent(o)
    \/ \E f, g \in InputNames \cup OutputNames \cup {"none"} :
          InitializeModules(f, g)
    \/ RegisterAllTools

\* a constructed engine: any tools configuration, with or without the IR
\* hardware, nothing registered yet
InitInit ==
    /\ init_pc = "boot"
    /\ EngineFresh
    /\ tool_registry = {}
    /\ factories_registry = {}
    /\ ir_hardware \in BOOLEAN
    /\ \E en \in SUBSET ToolNames, cred \in BOOLEAN :
          tools_config = [t \in ToolNames |->
              [enabled |-> t \in en, credentials |-> (t = "tapo" => cred)]]
    /\ inputs_enabled \in {{"terminal", "web"}, InputNames}
    /\ outputs_enabled \in {{"terminal_output"}, OutputNames}
    /\ input_modules = {}
    /\ output_modules = {}
    /\ config_outputs = [x \in InputNames |-> NoEntry]
    /\ tasks = <<>>
    /\ dispatched = <<>>
    /\ ToolsIdle
    /\ ModulesIdle
    /\ FactoriesIdle
    /\ LifeIdle
    /\ CleanupIdle
    /\ EmitIdle

SpecInit == InitInit /\ [][NextInit]_vars

-----------------------------------------------------------------------------
(* ToolAdapter.execute() of the four adapters *)

\* messages an exception raised under an adapter may carry; str(e) of an
\* exception built without arguments, such as asyncio.TimeoutError(), is ""
ExcMessages == {"", "Connection refused"}

\* how a call into a library ends
ToolOutcomes ==
    {[raised |-> FALSE, message |-> ""]}
        \cup {[raised |-> TRUE, message |-> m] : m \in ExcMessages}

\* str(e)
Str(e) == e.message

\* {"success": False, "error": msg}
Failure(msg) == [status |-> "returned", success |-> FALSE, error |-> msg]

\* {"success": True, ...}
Success == [status |-> "returned", success |-> TRUE, error |-> ""]

\* a pydantic model built, or the ValueError / ValidationError it raised
Valid == [ok |-> TRUE, error |-> ""]

Invalid(msg) == [ok |-> FALSE, error |-> msg]

\* ---- Tapo

\* config['devices'] of the Tapo tool: device id -> type
TapoDevices == [prise |-> "P110", lampe |-> "L530", radio |-> "X10"]

TapoDeviceType == {"P110", "L530"}

TapoAction == {"on", "off", "toggle", "get_info", "set_brightness", "set_color"}

DEVICE_ACTIONS ==
    [P110 |-> {"on", "off", "toggle", "get_info"},
     L530 |-> {"on", "off", "toggle", "get_info", "set_brightness", "set_color"}]

\* filled by _update_device_type_mapping: the devices of a supported type
DEVICE_TYPE_MAPPING ==
    [d \in {x \in DOMAIN TapoDevices : TapoDevices[x] \in TapoDeviceType} |->
        TapoDevices[d]]

TAPO_COLORS ==
    {"red", "green", "blue", "white", "yellow", "orange", "purple", "pink",
     "cyan", "magenta", "warm_white", "cool_white", "lime", "navy", "teal",
     "maroon"}

\* keyword arguments tried on TapoAdapter.execute; "none" is an absent key
TapoParams ==
    [action : {"none", "on", "set_brightness", "set_color", "dance"},
     device_name : {"prise", "lampe", "radio", "inconnu"},
     value : {50, 101},
     color : {"none", "red", "mauve"}]

\* the model selection of execute and the validators of the selected model
TapoValidate(p) ==
    IF p.action = "none" THEN Invalid("Parametre 'action' obligatoire")
    ELSE IF p.action \notin TapoAction THEN Invalid("Action non reconnue")
    ELSE IF p.action = "set_brightness" /\ p.value \notin 0..100
         THEN Invalid("value: Input should be less than or equal to 100")
    ELSE IF p.action = "set_color" /\ p.color = "none"
         THEN Invalid("r: Field required")
    ELSE IF p.device_name \notin DOMAIN DEVICE_TYPE_MAPPING
         THEN Invalid("Appareil non configure")
    ELSE IF p.action = "set_color" /\ p.color \notin TAPO_COLORS
         THEN Invalid("Couleur non supportee")
    ELSE IF p.action \in {"set_brightness", "set_color"}
            /\ p.action \notin DEVICE_ACTIONS[DEVICE_TYPE_MAPPING[p.device_name]]
         THEN Invalid("Action non supportee pour cet appareil")
    ELSE Valid

\* a mutant: the API client is created before the parameters are validated
TapoBeginEager(p, client) ==
    LET v == TapoValidate(p)
        made == IF client THEN <<>> ELSE <<"client">>
    IN  IF ~v.ok
        THEN [validated |-> "failed", pc |-> "idle", effects |-> made,
              client |-> TRUE, result |-> Failure(v.error)]
        ELSE [validated |-> "ok", pc |-> "connect", effects |-> made,
              client |-> TRUE, result |-> NoResult]

\* TapoAdapter.execute up to its first await: validation, the device lookup,
\* then the lazily created ApiClient
TapoBegin(p, client) ==
    LET v == TapoValidate(p)
    IN  IF ~v.ok
        THEN [validated |-> "failed", pc |-> "idle", effects |-> <<>>,
              client |-> client, result |-> Failure(v.error)]
        ELSE IF p.device_name \notin DOMAIN TapoDevices
        THEN [validated |-> "ok", pc |-> "idle", effects |-> <<>>,
              client |-> client, result |-> Failure("Appareil introuvable")]
        ELSE [validated |-> "ok", pc |-> "connect",
              effects |-> IF client THEN <<>> ELSE <<"client">>,
              client |-> TRUE, result |-> NoResult]

\* ---- Weather

\* city arguments tried; "none" is an absent key
WeatherCities == {"none", "P", "  ", "Par1s", "Paris"}

WeatherParams == [city : WeatherCities]

\* str.strip() on the cities tried
Strip(city) == IF city = "  " THEN "" ELSE city

\* re.match of the allowed-characters pattern on the cities tried
MatchesCityPattern(city) == city \notin {"Par1s", ""}

WeatherValidate(p) ==
    IF p.city = "none" THEN Invalid("city: Field required")
    ELSE IF Len(p.city) < 2 THEN Invalid("city: String should have at least 2 characters")
    ELSE IF Len(p.city) > 100 THEN Invalid("city: String should have at most 100 characters")
    ELSE IF Strip(p.city) = "" THEN Invalid("Le nom de la ville ne peut pas etre vide")
    ELSE IF ~MatchesCityPattern(Strip(p.city)) THEN Invalid("Nom de ville invalide")
    ELSE Valid

\* WeatherAdapter.execute up to its first request
WeatherBegin(p, api_key) ==
    LET v == WeatherValidate(p)
    IN  IF ~api_key
        THEN [validated |-> "skipped", pc |-> "idle", effects |-> <<>>,
              client |-> tapo_client,
              result |-> Failure("Cle API OpenWeatherMap non configuree")]
        ELSE IF ~v.ok
        THEN [validated |-> "failed", pc |-> "idle", effects |-> <<>>,
              client |-> tapo_client, result |-> Failure(v.error)]
        ELSE [validated |-> "ok", pc |-> "geocode", effects |-> <<>>,
              client |-> tapo_client, result |-> NoResult]

\* ---- IR, Osram

OsramActions == {"power", "brightness", "color", "effect"}

valid_combinations ==
    [power |-> {"on", "off", "toggle"},
     brightness |-> {"bright_up", "bright_down", "bright_max", "bright_min"},
     color |-> {"red", "green", "blue", "white", "yellow", "orange", "purple",
                "pink", "cyan", "magenta", "warm_white", "cool_white",
                "lime", "navy", "teal", "maroon"},
     effect |-> {"flash", "strobe", "fade", "smooth"}]

OsramCommands == UNION {valid_combinations[a] : a \in OsramActions}

OsramParams ==
    [action : {"power", "color", "dance"},
     command : {"on", "red", "jump"},
     repeat_count : {0, 11}]

OsramValidate(p) ==
    IF p.action \notin OsramActions THEN Invalid("action: Input should be 'power', ...")
    ELSE IF p.command \notin OsramCommands THEN Invalid("command: Input should be 'on', ...")
    ELSE IF p.repeat_count \notin 0..10 THEN Invalid("repeat_count: Input should be less than or equal to 10")
    ELSE IF p.command \notin valid_combinations[p.action]
         THEN Invalid("Commande invalide pour action")
    ELSE Valid

\* IROsramAdapter.execute up to remote.send_command
OsramBegin(p, remote) ==
    LET v == OsramValidate(p)
    IN  IF ~remote
        THEN [validated |-> "skipped", pc |-> "idle", effects |-> <<>>,
              client |-> tapo_client,
              result |-> Failure("Controle IR OSRAM non disponible")]
        ELSE IF ~v.ok
        THEN [validated |-> "failed", pc |-> "idle", effects |-> <<>>,
              client |-> tapo_client, result |-> Failure(v.error)]
        ELSE [validated |-> "ok", pc |-> "send", effects |-> <<>>,
              client |-> tapo_client, result |-> NoResult]

\* ---- IR, Yamaha

YamahaCommand ==
    {"power", "vol_up", "vol_down", "play", "pause", "stop", "ff", "rew",
     "tuner", "tape", "aux", "md", "dvd", "mode", "random", "repeat",
     "display", "sleep", "digit_0", "digit_1", "digit_2", "digit_3",
     "digit_4", "digit_5", "digit_6", "digit_7", "digit_8", "digit_9",
     "mode_10", "start_100", "preset_up", "preset_down", "time"}

COMMAND_ACTIONS ==
    [power |-> {"power"},
     volume |-> {"vol_up", "vol_down"},
     playback |-> {"play", "pause", "stop", "ff", "rew"},
     source |-> {"tuner", "tape", "aux", "md", "dvd", "mode"},
     preset |-> {"preset_up", "preset_down"},
     digit |-> {"digit_0", "digit_1", "digit_2", "digit_3", "digit_4",
                "digit_5", "digit_6", "digit_7", "digit_8", "digit_9"},
     function |-> {"random", "repeat", "display", "sleep", "mode_10",
                   "start_100", "time"}]

YamahaParams ==
    [action : {"power", "volume", "preset", "dance"},
     command : {"power", "vol_up", "jump"},
     repeat_count : {1, 11}]

\* validate_yamaha_parameters and the validators of the model it selects
validate_yamaha_parameters(p) ==
    IF p.action \notin {"power", "volume", "playback", "source", "digit", "function"}
    THEN Invalid("Action non supportee")
    ELSE IF p.command \notin YamahaCommand THEN Invalid("command: Input should be 'power', ...")
    ELSE IF p.action = "volume" /\ p.repeat_count \notin 1..10
         THEN Invalid("repeat_count: Input should be less than or equal to 10")
    ELSE IF ~ir_hardware
         THEN Invalid("Controle IR Yamaha disponible uniquement sur Raspberry Pi")
    ELSE IF p.command \notin COMMAND_ACTIONS[p.action]
         THEN Invalid("Commande invalide pour l'action")
    ELSE Valid

\* IRYamahaAdapter.execute and _control_yamaha_ir up to remote.send_command
YamahaBegin(p, remote) ==
    LET v == validate_yamaha_parameters(p)
    IN  IF ~remote
        THEN [validated |-> "skipped", pc |-> "idle", effects |-> <<>>,
              client |-> tapo_client,
              result |-> Failure("Controle IR Yamaha non disponible")]
        ELSE IF ~v.ok
        THEN [validated |-> "failed", pc |-> "idle", effects |-> <<>>,
              client |-> tapo_client, result |-> Failure(v.error)]
        ELSE [validated |-> "ok", pc |-> "send", effects |-> <<>>,
              client |-> tapo_client, result |-> NoResult]

\* send_ir_signal wraps whatever the GPIO layer raises
IRError(e) == "Erreur lors de l'envoi IR: " \o Str(e)

\* ---- the calls

ParamsOf(adapter) ==
    CASE adapter = "tapo" -> TapoParams
      [] adapter = "weather" -> WeatherParams
      [] adapter = "ir_osram" -> OsramParams
      [] adapter = "ir_yamaha" -> YamahaParams

Begin(adapter, p) ==
    CASE adapter = "tapo" -> TapoBegin(p, tapo_client)
      [] adapter = "weather" -> WeatherBegin(p, tools_config["weather"].credentials)
      [] adapter = "ir_osram" -> OsramBegin(p, tool_adapters["ir_osram"].remote)
      [] adapter = "ir_yamaha" -> YamahaBegin(p, tool_adapters["ir_yamaha"].remote)

\* the call ends: the dict goes back to the caller
Return(r) ==
    /\ tool_pc' = "idle"
    /\ result' = r

\* adapter.execute(**kwargs) is entered
Execute(adapter, p) ==
    /\ tool_pc = "idle"
    /\ tool_adapters[adapter].built
    /\ LET b == Begin(adapter, p)
       IN  /\ call' = [adapter |-> adapter, params |-> p]
           /\ validated' = b.validated
           /\ effects' = b.effects
           /\ tapo_client' = b.client
           /\ tool_pc' = b.pc
           /\ result' = b.result
    /\ UNCHANGED initVars
    /\ UNCHANGED msgVars
    /\ UNCHANGED extVars

\* await self.client.p110(ip) / l530(ip)
TapoConnect(outcome) ==
    /\ tool_pc = "connect"
    /\ IF TapoDevices[call.params.device_name] \notin TapoDeviceType
       THEN /\ effects' = effects
            /\ Return(Failure("Type d'appareil non supporte"))
       ELSE /\ effects' = Append(effects, "connect")
            /\ IF outcome.raised
               THEN Return(Failure(Str(outcome)))
               ELSE /\ tool_pc' = "device"
                    /\ result' = result
    /\ UNCHANGED <<call, validated, tapo_client>>
    /\ UNCHANGED initVars
    /\ UNCHANGED msgVars
    /\ UNCHANGED extVars

\* _execute_action: the device call, its exception turned into a dict
TapoDeviceAction(outcome) ==
    /\ tool_pc = "device"
    /\ effects' = Append(effects, "device")
    /\ Return(IF outcome.raised THEN Failure(Str(outcome)) ELSE Success)
    /\ UNCHANGED <<call, validated, tapo_client>>
    /\ UNCHANGED initVars
    /\ UNCHANGED msgVars
    /\ UNCHANGED extVars

\* _get_city_coordinates: any failure of the lookup comes back as None
WeatherGeocode(found) ==
    /\ tool_pc = "geocode"
    /\ effects' = Append(effects, "geocode")
    /\ IF found
       THEN /\ tool_pc' = "weather"
            /\ result' = result
       ELSE Return(Failure("Ville non trouvee"))
    /\ UNCHANGED <<call, validated, tapo_client>>
    /\ UNCHANGED initVars
    /\ UNCHANGED msgVars
    /\ UNCHANGED extVars

HttpStatuses == {"200", "401", "500"}

\* the weather request of _get_weather_info
WeatherRequest(outcome, status) ==
    /\ tool_pc = "weather"
    /\ effects' = Append(effects, "weather")
    /\ Return(IF outcome.raised THEN Failure(Str(outcome))
              ELSE IF status = "200" THEN Success
              ELSE IF status = "401" THEN Failure("Cle API OpenWeatherMap invalide")
              ELSE Failure("Erreur API meteo (statut " \o status \o ")"))
    /\ UNCHANGED <<call, validated, tapo_client>>
    /\ UNCHANGED initVars
    /\ UNCHANGED msgVars
    /\ UNCHANGED extVars

\* remote.send_command of either IR adapter; known: the remote has a code
\* for the command
IRSend(outcome, known) ==
    /\ tool_pc = "send"
    /\ IF ~known
       THEN /\ effects' = effects
            /\ Return(Failure("Echec envoi commande"))
       ELSE /\ effects' = Append(effects, "ir")
            /\ Return(IF outcome.raised THEN Failure(IRError(outcome))
                      ELSE Success)
    /\ UNCHANGED <<call, validated, tapo_client>>
    /\ UNCHANGED initVars
    /\ UNCHANGED msgVars
    /\ UNCHANGED extVars

\* IRYamahaAdapter.initialize(), called directly on the adapter: the remote
\* is built on a Raspberry Pi with lgpio
InitializeYamaha ==
    /\ tool_pc = "idle"
    /\ tool_adapters["ir_yamaha"].built
    /\ ir_hardware
    /\ ~tool_adapters["ir_yamaha"].remote
    /\ tool_adapters' = [tool_adapters EXCEPT !["ir_yamaha"].remote = TRUE]
    /\ UNCHANGED <<init_pc, init_result, llm, agent, tool_registry, ir_hardware,
                   tools_config, inputs_enabled, outputs_enabled, tools,
                   tool_errors, init_error, factories_registry, init_false>>
    /\ UNCHANGED toolVars
    /\ UNCHANGED msgVars
    /\ UNCHANGED extVars

NextTool ==
    \/ \E a \in ToolNames : \E p \in ParamsOf(a) : Execute(a, p)
    \/ \E o \in ToolOutcomes : TapoConnect(o)
    \/ \E o \in ToolOutcomes : TapoDeviceAction(o)
    \/ \E f \in BOOLEAN : WeatherGeocode(f)
    \/ \E o \in ToolOutcomes, st \in HttpStatuses : WeatherRequest(o, st)
    \/ \E o \in ToolOutcomes, k \in BOOLEAN : IRSend(o, k)
    \/ InitializeYamaha

\* an engine whose initialize() loaded the four adapters, with or without
\* the IR hardware and the weather API key
InitTool ==
    /\ init_pc = "done"
    /\ init_result = "true"
    /\ init_error = "none"
    /\ llm = "built"
    /\ agent = "built"
    /\ tool_registry = ToolNames
    /\ factories_registry = ToolNames
    /\ init_false = {}
    /\ ir_hardware \in BOOLEAN
    /\ \E key \in BOOLEAN :
          tools_config = [t \in ToolNames |->
              [enabled |-> TRUE, credentials |-> (t = "weather" => key)]]
    /\ tool_adapters = [t \in ToolNames |->
          [built |-> TRUE, remote |-> RemoteAfterInit(t)]]
    /\ tools = ToolOrder
    /\ tool_errors = {}
    /\ inputs_enabled = {}
    /\ outputs_enabled = {}
    /\ input_modules = {}
    /\ output_modules = {}
    /\ config_outputs = [x \in InputNames |-> NoEntry]
    /\ tasks = <<>>
    /\ dispatched = <<>>
    /\ ToolsIdle
    /\ ModulesIdle
    /\ FactoriesIdle
    /\ LifeIdle
    /\ CleanupIdle
    /\ EmitIdle

SpecTool == InitTool /\ [][NextTool]_vars

-----------------------------------------------------------------------------
(* Module factories: register, create, create_modules_from_config *)

\* names a caller may give to an instance it creates itself
InstanceNames == {"n1", "n2"}

\* how the construction and start-up of one instance goes
EntryOutcomes == {"ok", "ctor_raise", "init_raise", "init_false"}

\* a mutant: the class is built with the registry key in place of the name
CreateResultKeyed(registry, key, name, config, ctor_raises) ==
    IF key \notin DOMAIN registry \/ registry[key] = "none"
    THEN [key |-> key, name |-> name, config |-> config,
          status |-> "unknown_type", constructed |-> FALSE,
          instance |-> NoInstance]
    ELSE IF ctor_raises
    THEN [key |-> key, name |-> name, config |-> config,
          status |-> "ctor_raised", constructed |-> TRUE,
          instance |-> NoInstance]
    ELSE [key |-> key, name |-> name, config |-> config,
          status |-> "returned", constructed |-> TRUE,
          instance |-> [class |-> registry[key], name |-> key,
                        config |-> config, initialized |-> FALSE]]

\* create(module_type, name, config): ValueError for a key that is not in
\* the registry, else module_class(name, config)
CreateResult(registry, key, name, config, ctor_raises) ==
    IF key \notin DOMAIN registry \/ registry[key] = "none"
    THEN [key |-> key, name |-> name, config |-> config,
          status |-> "unknown_type", constructed |-> FALSE,
          instance |-> NoInstance]
    ELSE IF ctor_raises
    THEN [key |-> key, name |-> name, config |-> config,
          status |-> "ctor_raised", constructed |-> TRUE,
          instance |-> NoInstance]
    ELSE [key |-> key, name |-> name, config |-> config,
          status |-> "returned", constructed |-> TRUE,
          instance |-> [class |-> registry[key], name |-> name,
                        config |-> config, initialized |-> FALSE]]

\* a mutant: the failure of one entry leaves create_modules_from_config
EntryFailedRaise(a, kind) ==
    /\ fac_seen' = [fac_seen EXCEPT ![a] = kind]
    /\ fac_modules' = fac_modules
    /\ fac_idx' = fac_idx
    /\ fac_pc' = "raised"

\* except Exception around one entry: log it, go to the next attribute
EntryFailed(a, kind) ==
    /\ fac_seen' = [fac_seen EXCEPT ![a] = kind]
    /\ fac_modules' = fac_modules
    /\ fac_idx' = fac_idx + 1
    /\ fac_pc' = fac_pc

\* register(module_type, module_class); the registries are filled when the
\* process starts, before anything is created
Register(key, class) ==
    /\ fac_pc = "idle"
    /\ last_create = NoCreate
    /\ module_registry[key] # class
    /\ module_registry' = [module_registry EXCEPT ![key] = class]
    /\ UNCHANGED <<fac_config, fac_pc, fac_idx, fac_modules, fac_seen,
                   last_create>>
    /\ UNCHANGED notFacVars

\* a direct create(key, name, config) call
Create(key, name, ctor_raises) ==
    /\ fac_pc = "idle"
    /\ last_create' = CreateResult(module_registry, key, name, "cfg",
                                   ctor_raises)
    /\ last_create' # last_create
    /\ UNCHANGED <<module_registry, fac_config, fac_pc, fac_idx, fac_modules,
                   fac_seen>>
    /\ UNCHANGED notFacVars

\* create_modules_from_config is entered: modules = {}
FactoryBegin ==
    /\ fac_pc = "idle"
    /\ fac_pc' = "building"
    /\ fac_idx' = 1
    /\ fac_modules' = [a \in Range(FacAttrs) |-> NoInstance]
    /\ fac_seen' = [a \in Range(FacAttrs) |-> "none"]
    /\ UNCHANGED <<module_registry, fac_config, last_create>>
    /\ UNCHANGED notFacVars

\* one turn of the loop over the configuration attributes
FactoryEntry(outcome) ==
    /\ fac_pc = "building"
    /\ fac_idx <= Len(FacAttrs)
    /\ LET a == FacAttrs[fac_idx]
           c == CreateResult(module_registry, fac_config[a].type, a, a,
                             outcome = "ctor_raise")
       IN  IF ~fac_config[a].enabled
           THEN /\ fac_idx' = fac_idx + 1
                /\ UNCHANGED <<fac_pc, fac_modules, fac_seen, last_create>>
           ELSE /\ last_create' = c
                /\ IF c.status # "returned" THEN EntryFailed(a, c.status)
                   ELSE IF outcome = "init_raise" THEN EntryFailed(a, outcome)
                   ELSE /\ fac_modules' = [fac_modules EXCEPT ![a] =
                               [c.instance EXCEPT !.initialized = TRUE]]
                        /\ fac_seen' = [fac_seen EXCEPT ![a] =
                               IF outcome = "init_false" THEN outcome ELSE "ok"]
                        /\ fac_idx' = fac_idx + 1
                        /\ fac_pc' = fac_pc
    /\ UNCHANGED <<module_registry, fac_config>>
    /\ UNCHANGED notFacVars

\* return modules
FactoryReturn ==
    /\ fac_pc = "building"
    /\ fac_idx > Len(FacAttrs)
    /\ fac_pc' = "returned"
    /\ UNCHANGED <<module_registry, fac_config, fac_idx, fac_modules, fac_seen,
                   last_create>>
    /\ UNCHANGED notFacVars

NextFactory ==
    \/ \E k \in Range(FacAttrs), c \in Classes : Register(k, c)
    \/ \E k \in Range(FacAttrs), n \in InstanceNames, r \in BOOLEAN :
          Create(k, n, r)
    \/ FactoryBegin
    \/ \E o \in EntryOutcomes : FactoryEntry(o)
    \/ FactoryReturn

\* the configurations tried: each attribute enabled or not, the web entry
\* naming its own type or the terminal type
FacConfigs ==
    {[a \in Range(FacAttrs) |->
         [enabled |-> a \in en, type |-> IF a = "web" THEN t ELSE a]] :
       en \in SUBSET Range(FacAttrs), t \in {"web", "terminal"}}

InitFactory ==
    /\ module_registry = [k \in Range(FacAttrs) |-> "none"]
    /\ fac_config \in FacConfigs
    /\ fac_pc = "idle"
    /\ fac_idx = 0
    /\ fac_modules = [a \in Range(FacAttrs) |-> NoInstance]
    /\ fac_seen = [a \in Range(FacAttrs) |-> "none"]
    /\ last_create = NoCreate
    /\ init_pc = "boot"
    /\ EngineFresh
    /\ tool_registry = {}
    /\ factories_registry = {}
    /\ ir_hardware = FALSE
    /\ tools_config = [t \in ToolNames |->
                          [enabled |-> FALSE, credentials |-> TRUE]]
    /\ inputs_enabled = {}
    /\ outputs_enabled = {}
    /\ input_modules = {}
    /\ output_modules = {}
    /\ config_outputs = [x \in InputNames |-> NoEntry]
    /\ tasks = <<>>
    /\ dispatched = <<>>
    /\ ToolsIdle
    /\ ModulesIdle
    /\ LifeIdle
    /\ CleanupIdle
    /\ EmitIdle

SpecFactory == InitFactory /\ [][NextFactory]_vars

-----------------------------------------------------------------------------
(* GLaDOSReActEngine.start / stop and GLaDOSApplication.run / shutdown *)

\* how a start_listening() coroutine can end
StartOutcomes == {"returned", "raised"}

\* how a cleanup() coroutine can go: it returns, it raises, it waits for
\* ever on something a cancellation interrupts ("hung"), or it never
\* completes and a cancellation does not end it ("deaf": a blocking call
\* inside the event loop, or a swallowed CancelledError)
CleanupOutcomes == {"returned", "raised", "hung", "deaf"}

\* a mutant: start() goes on although the engine is running
AlreadyRunningIgnored == FALSE

\* if self.is_running: warning, return
AlreadyRunning == is_running

\* asyncio.gather has every coroutine it was given finished
GatherDone(ts) == \A m \in DOMAIN ts : ts[m] \in {"none", "returned", "raised"}

\* a mutant: the gather of start() lets an exception through
StartGatherRaising(ts) ==
    IF \E m \in DOMAIN ts : ts[m] = "raised" THEN "raised" ELSE "returned"

\* await asyncio.gather(*start_tasks, return_exceptions=True): exceptions
\* are collected in the result list, which start() drops
StartGather(ts) == "returned"

\* a mutant: the gather of stop() lets an exception through
StopGatherRaising(ts) ==
    IF \E m \in DOMAIN ts : ts[m] = "raised" THEN "raised" ELSE "returned"

\* await asyncio.gather(*cleanup_tasks, return_exceptions=True)
StopGather(ts) == "returned"

\* the body of start()
StartEngine ==
    IF AlreadyRunning
    THEN /\ start_log' = Append(start_log, {})
         /\ UNCHANGED <<is_running, start_pc, start_tasks, start_result>>
    ELSE /\ is_running' = TRUE
         /\ start_tasks' = [m \in InputNames |->
                               IF m \in input_modules THEN "running" ELSE "none"]
         /\ start_log' = Append(start_log, input_modules)
         /\ IF input_modules = {}
            THEN start_pc' = "idle" /\ start_result' = "returned"
            ELSE start_pc' = "gathering" /\ start_result' = "none"

\* the body of stop(), up to the gather
StopEngine(via) ==
    IF ~is_running
    THEN /\ stop_log' = [was_running |-> FALSE, invoked |-> {}]
         /\ UNCHANGED <<is_running, stop_pc, stop_via, cleanup_tasks,
                        stop_result, start_log>>
    ELSE /\ is_running' = FALSE
         /\ cleanup_tasks' = [m \in InputNames \cup OutputNames |->
                                 IF m \in input_modules \cup output_modules
                                 THEN "running" ELSE "none"]
         /\ stop_log' = [was_running |-> TRUE,
                         invoked |-> input_modules \cup output_modules]
         /\ start_log' = <<>>
         /\ stop_via' = via
         /\ IF input_modules \cup output_modules = {}
            THEN stop_pc' = "idle" /\ stop_result' = "returned"
            ELSE stop_pc' = "awaiting" /\ stop_result' = "none"

\* someone calls engine.start(); one gathering start() at a time
StartCall ==
    /\ Len(start_log) < MaxStarts
    /\ AlreadyRunning \/ start_pc = "idle"
    /\ StartEngine
    /\ UNCHANGED <<stop_pc, stop_via, cleanup_tasks, stop_result, stop_log,
                   app_pc>>
    /\ UNCHANGED notLifeVars

\* GLaDOSApplication.run(): is_running = True, await self.engine.start()
Run ==
    /\ app_pc = "new"
    /\ Len(start_log) < MaxStarts
    /\ AlreadyRunning \/ start_pc = "idle"
    /\ app_pc' = "running"
    /\ StartEngine
    /\ UNCHANGED <<stop_pc, stop_via, cleanup_tasks, stop_result, stop_log>>
    /\ UNCHANGED notLifeVars

\* the start_listening() coroutine of one input module ends
StartListeningEnds(m, outcome) ==
    /\ start_pc = "gathering"
    /\ start_tasks[m] = "running"
    /\ start_tasks' = [start_tasks EXCEPT ![m] = outcome]
    /\ UNCHANGED <<is_running, start_pc, start_result, start_log, stop_pc,
                   stop_via, cleanup_tasks, stop_result, stop_log, app_pc>>
    /\ UNCHANGED notLifeVars

\* the gather of start() is over: "Moteur GLaDOS démarré"
StartReturn ==
    /\ start_pc = "gathering"
    /\ GatherDone(start_tasks)
    /\ start_pc' = "idle"
    /\ start_result' = StartGather(start_tasks)
    /\ UNCHANGED <<is_running, start_tasks, start_log, stop_pc, stop_via,
                   cleanup_tasks, stop_result, stop_log, app_pc>>
    /\ UNCHANGED notLifeVars

\* someone calls engine.stop() itself; one gathering stop() at a time
StopCall ==
    /\ ~is_running \/ stop_pc = "idle"
    /\ StopEngine("direct")
    /\ UNCHANGED <<start_pc, start_tasks, start_result, app_pc>>
    /\ UNCHANGED notLifeVars

\* the cleanup() coroutine of one module ends, or stops making progress
CleanupEnds(m, outcome) ==
    /\ stop_pc = "awaiting"
    /\ cleanup_tasks[m] = "running"
    /\ cleanup_tasks' = [cleanup_tasks EXCEPT ![m] = outcome]
    /\ UNCHANGED <<is_running, start_pc, start_tasks, start_result, start_log,
                   stop_pc, stop_via, stop_result, stop_log, app_pc>>
    /\ UNCHANGED notLifeVars

\* the gather of stop() is over: "Moteur GLaDOS arrêté"
StopReturn ==
    /\ stop_pc = "awaiting"
    /\ GatherDone(cleanup_tasks)
    /\ stop_pc' = "idle"
    /\ stop_result' = StopGather(cleanup_tasks)
    /\ UNCHANGED <<is_running, start_pc, start_tasks, start_result, start_log,
                   stop_via, cleanup_tasks, stop_log, app_pc>>
    /\ UNCHANGED notLifeVars

\* GLaDOSApplication.shutdown(): is_running = False, then
\* await asyncio.wait_for(self.engine.stop(), timeout=5.0)
Shutdown ==
    /\ app_pc = "running"
    /\ ~is_running \/ stop_pc = "idle"
    /\ app_pc' = "stopping"
    /\ StopEngine("shutdown")
    /\ UNCHANGED <<start_pc, start_tasks, start_result>>
    /\ UNCHANGED notLifeVars

\* the 5 s of wait_for are over: the stop() task is cancelled, the
\* cancellation reaches the cleanup coroutines through the gather, and
\* wait_for raises TimeoutError once the stop() task has ended
ShutdownTimeout ==
    /\ app_pc = "stopping"
    /\ stop_pc = "awaiting"
    /\ stop_via = "shutdown"
    /\ cleanup_tasks' = [m \in DOMAIN cleanup_tasks |->
                            IF cleanup_tasks[m] \in {"running", "hung"}
                            THEN "cancelled" ELSE cleanup_tasks[m]]
    /\ IF \E m \in DOMAIN cleanup_tasks : cleanup_tasks[m] = "deaf"
       THEN UNCHANGED <<stop_pc, stop_result, app_pc>>
       ELSE /\ stop_pc' = "idle"
            /\ stop_result' = "cancelled"
            /\ app_pc' = "stopped"
    /\ UNCHANGED <<is_running, start_pc, start_tasks, start_result, start_log,
                   stop_via, stop_log>>
    /\ UNCHANGED notLifeVars

\* wait_for hands back the return of stop(): "GLaDOS arrêté proprement"
ShutdownEnds ==
    /\ app_pc = "stopping"
    /\ stop_pc = "idle"
    /\ app_pc' = "stopped"
    /\ UNCHANGED <<is_running, start_pc, start_tasks, start_result, start_log,
                   stop_pc, stop_via, cleanup_tasks, stop_result, stop_log>>
    /\ UNCHANGED notLifeVars

StartListeningStep == \E m \in InputNames, o \in StartOutcomes :
                          StartListeningEnds(m, o)

CleanupStep == \E m \in InputNames \cup OutputNames, o \in CleanupOutcomes :
                   CleanupEnds(m, o)

NextLife ==
    \/ StartCall
    \/ Run
    \/ StartListeningStep
    \/ StartReturn
    \/ StopCall
    \/ CleanupStep
    \/ StopReturn
    \/ Shutdown
    \/ ShutdownTimeout
    \/ ShutdownEnds

\* an initialized engine with two input modules and at most one output module
InitLife ==
    /\ input_modules = {"terminal", "web"}
    /\ output_modules \in {{}, {"terminal_output"}}
    /\ config_outputs = [x \in InputNames |-> NoEntry]
    /\ tasks = <<>>
    /\ dispatched = <<>>
    /\ init_pc = "done"
    /\ init_result = "true"
    /\ llm = "built"
    /\ agent = "built"
    /\ tool_registry = {}
    /\ ir_hardware = FALSE
    /\ tools_config = [t \in ToolNames |->
                          [enabled |-> FALSE, credentials |-> TRUE]]
    /\ inputs_enabled = input_modules
    /\ outputs_enabled = output_modules
    /\ tool_adapters = [t \in ToolNames |-> NoAdapter]
    /\ tools = <<>>
    /\ tool_errors = {}
    /\ init_error = "none"
    /\ factories_registry = {}
    /\ init_false = {}
    /\ ToolsIdle
    /\ ModulesIdle
    /\ FactoriesIdle
    /\ LifeIdle
    /\ CleanupIdle
    /\ EmitIdle

SpecLife == InitLife /\ [][NextLife]_vars

\* the event loop runs every coroutine that can go on, and the timer of
\* wait_for fires
SpecLifeFair ==
    /\ SpecLife
    /\ WF_vars(StartListeningStep)
    /\ WF_vars(StartReturn)
    /\ WF_vars(CleanupStep)
    /\ WF_vars(StopReturn)
    /\ WF_vars(ShutdownTimeout)
    /\ WF_vars(ShutdownEnds)

-----------------------------------------------------------------------------
(* cleanup() of the IR adapters, the wake word module and the weather       *)
(* adapter                                                                  *)

\* the IR adapters: the remote keeps the lgpio chip handle in self.h
IROwners == {"ir_osram", "ir_yamaha"}

\* what lgpio does with a handle that was already closed: its code is not in
\* the repository, so either it raises or it closes whatever now has that
\* handle number
StaleHandleOutcomes == {"raises", "closes"}

\* OsramRGBWRemote.init_gpio / YamahaRemote (gpiochip_open), and
\* WakeWordInput.initialize (PvRecorder): the owner gets its handle
OpenHandle(o) ==
    /\ o # "weather"
    /\ cln_handle[o] = "none"
    /\ cln_calls[o] = 0
    /\ cln_attr' = [cln_attr EXCEPT ![o] = TRUE]
    /\ cln_handle' = [cln_handle EXCEPT ![o] = "open"]
    /\ UNCHANGED <<cln_releases, cln_calls, cln_raised>>
    /\ UNCHANGED notClnVars

\* one cleanup() call on an owner
Cleanup(o, lib) ==
    /\ cln_calls[o] < MaxCleanups
    /\ cln_calls' = [cln_calls EXCEPT ![o] = @ + 1]
    /\ IF o \in IROwners /\ cln_attr[o]
       THEN \* if self.remote: if self.h is not None: gpio_write,
            \* gpiochip_close(self.h); neither attribute is reset
            /\ cln_attr' = cln_attr
            /\ IF cln_handle[o] = "open"
               THEN /\ cln_handle' = [cln_handle EXCEPT ![o] = "closed"]
                    /\ cln_releases' = [cln_releases EXCEPT ![o] = @ + 1]
                    /\ cln_raised' = cln_raised
               ELSE IF lib = "raises"
               THEN /\ cln_raised' = [cln_raised EXCEPT ![o] = TRUE]
                    /\ UNCHANGED <<cln_handle, cln_releases>>
               ELSE /\ cln_releases' = [cln_releases EXCEPT ![o] = @ + 1]
                    /\ UNCHANGED <<cln_handle, cln_raised>>
       ELSE IF o = "wake_word" /\ cln_attr[o]
       THEN \* if self.recorder: self.recorder.delete(); self.recorder = None
            /\ cln_attr' = [cln_attr EXCEPT ![o] = FALSE]
            /\ cln_handle' = [cln_handle EXCEPT ![o] = "closed"]
            /\ cln_releases' = [cln_releases EXCEPT ![o] = @ + 1]
            /\ cln_raised' = cln_raised
       ELSE UNCHANGED <<cln_attr, cln_handle, cln_releases, cln_raised>>
    /\ UNCHANGED notClnVars

NextCleanup ==
    \/ \E o \in CleanupOwners : OpenHandle(o)
    \/ \E o \in CleanupOwners, lib \in StaleHandleOutcomes : Cleanup(o, lib)

InitCleanup ==
    /\ CleanupIdle
    /\ input_modules = {}
    /\ output_modules = {}
    /\ config_outputs = [x \in InputNames |-> NoEntry]
    /\ tasks = <<>>
    /\ dispatched = <<>>
    /\ init_pc = "boot"
    /\ EngineFresh
    /\ tool_registry = {}
    /\ factories_registry = {}
    /\ ir_hardware = TRUE
    /\ tools_config = [t \in ToolNames |->
                          [enabled |-> FALSE, credentials |-> TRUE]]
    /\ inputs_enabled = {}
    /\ outputs_enabled = {}
    /\ ToolsIdle
    /\ ModulesIdle
    /\ FactoriesIdle
    /\ LifeIdle
    /\ EmitIdle

SpecCleanup == InitCleanup /\ [][NextCleanup]_vars

-----------------------------------------------------------------------------
(* InputModule.subscribe_to_messages / emit_message *)

\* the callables that get subscribed
Handlers == {"h1", "h2", "h3"}

\* the messages emitted
EmitMessages == {"m1", "m2"}

\* what a handler does with a message
HandlerOutcomes == {"ok", "raise"}

\* a mutant: the exception of a handler leaves emit_message
HandlerRaisedPropagates ==
    /\ emit_pc' = "idle"
    /\ emit_result' = "raised"
    /\ emit_idx' = emit_idx

\* except Exception as e: print(...), then the next handler
HandlerRaised ==
    /\ emit_pc' = emit_pc
    /\ emit_result' = emit_result
    /\ emit_idx' = emit_idx + 1

\* self._message_handlers.append(handler)
subscribe_to_messages(h) ==
    /\ Len(message_handlers) < MaxHandlers
    /\ message_handlers' = Append(message_handlers, h)
    /\ UNCHANGED <<emit_pc, emit_idx, emit_msg, handler_calls, emit_result>>
    /\ UNCHANGED notEmitVars

\* emit_message(message) is entered
EmitBegin(m) ==
    /\ emit_pc = "idle"
    /\ emit_pc' = "looping"
    /\ emit_idx' = 1
    /\ emit_msg' = m
    /\ handler_calls' = <<>>
    /\ emit_result' = "none"
    /\ UNCHANGED message_handlers
    /\ UNCHANGED notEmitVars

\* one turn of `for handler in self._message_handlers`
EmitStep(outcome) ==
    /\ emit_pc = "looping"
    /\ emit_idx <= Len(message_handlers)
    /\ handler_calls' = Append(handler_calls,
          [handler |-> message_handlers[emit_idx], message |-> emit_msg,
           outcome |-> outcome])
    /\ IF outcome = "raise" THEN HandlerRaised
       ELSE /\ emit_idx' = emit_idx + 1
            /\ UNCHANGED <<emit_pc, emit_result>>
    /\ UNCHANGED <<message_handlers, emit_msg>>
    /\ UNCHANGED notEmitVars

\* the loop is over: emit_message returns None
EmitReturn ==
    /\ emit_pc = "looping"
    /\ emit_idx > Len(message_handlers)
    /\ emit_pc' = "idle"
    /\ emit_result' = "returned"
    /\ UNCHANGED <<message_handlers, emit_idx, emit_msg, handler_calls>>
    /\ UNCHANGED notEmitVars

NextEmit ==
    \/ \E h \in Handlers : subscribe_to_messages(h)
    \/ \E m \in EmitMessages : EmitBegin(m)
    \/ \E o \in HandlerOutcomes : EmitStep(o)
    \/ EmitReturn

InitEmit ==
    /\ EmitIdle
    /\ input_modules = {}
    /\ output_modules = {}
    /\ config_outputs = [x \in InputNames |-> NoEntry]
    /\ tasks = <<>>
    /\ dispatched = <<>>
    /\ init_pc = "boot"
    /\ EngineFresh
    /\ tool_registry = {}
    /\ factories_registry = {}
    /\ ir_hardware = FALSE
    /\ tools_config = [t \in ToolNames |->
                          [enabled |-> FALSE, credentials |-> TRUE]]
    /\ inputs_enabled = {}
    /\ outputs_enabled = {}
    /\ ToolsIdle
    /\ ModulesIdle
    /\ FactoriesIdle
    /\ LifeIdle
    /\ CleanupIdle

SpecEmit == InitEmit /\ [][NextEmit]_vars

-----------------------------------------------------------------------------
(* The engine, factories, tools and emit_message left as constructed: the   *)
(* state the specifications of the modules start from                       *)

EngineIdle ==
    /\ input_modules = {}
    /\ output_modules = {}
    /\ config_outputs = [x \in InputNames |-> NoEntry]
    /\ tasks = <<>>
    /\ dispatched = <<>>
    /\ init_pc = "boot"
    /\ EngineFresh
    /\ tool_registry = {}
    /\ factories_registry = {}
    /\ ir_hardware = FALSE
    /\ tools_config = [t \in ToolNames |->
                          [enabled |-> FALSE, credentials |-> TRUE]]
    /\ inputs_enabled = {}
    /\ outputs_enabled = {}
    /\ ToolsIdle
    /\ FactoriesIdle
    /\ LifeIdle
    /\ CleanupIdle
    /\ EmitIdle

-----------------------------------------------------------------------------
(* start_listening / stop_listening of the four input modules, and the      *)
(* thread their loops call the subscribed handler on                        *)

\* the thread of the event loop the engine runs on
LoopThread == "event_loop"

\* the thread WebInput.start_listening starts for uvicorn.run, which runs
\* its own event loop there
ServerThread == "server_thread"

\* the thread the routes, loops and events of a module run on, and so the
\* thread emit_message awaits the subscribed handler on
ThreadOf(m) == IF m = "web" THEN ServerThread ELSE LoopThread

\* the test each start_listening makes before starting anything:
\* terminal: listening_task and not listening_task.done(); wake_word:
\* listening_for_wake_word; web: server_thread and server_thread.is_alive();
\* discord: none
AlreadyListening(m) ==
    IF m = "terminal" THEN lst_loops[m] > 0
    ELSE IF m = "wake_word" THEN lst_flag[m]
    ELSE IF m = "web" THEN lst_loops[m] > 0
    ELSE FALSE

\* start_listening() of module m; starting the recorder may raise
start_listening(m, recorder) ==
    /\ lst_stopped' = [lst_stopped EXCEPT ![m] = FALSE]
    /\ lst_late' = [lst_late EXCEPT ![m] = FALSE]
    /\ IF AlreadyListening(m)
       THEN UNCHANGED <<lst_loops, lst_flag>>
       ELSE IF m = "wake_word" /\ recorder = "raise"
       THEN UNCHANGED <<lst_loops, lst_flag>>
       ELSE /\ lst_loops[m] < MaxLoops
            /\ lst_loops' = [lst_loops EXCEPT ![m] = @ + 1]
            /\ lst_flag' = [lst_flag EXCEPT ![m] = (m = "wake_word")]
    /\ UNCHANGED lst_threads
    /\ UNCHANGED notLstVars

\* a listening loop ends by itself: exit typed at the terminal, an error in
\* the audio task (listening_for_wake_word stays set), uvicorn.run or
\* bot.start failing
LoopEnds(m) ==
    /\ lst_loops[m] > 0
    /\ lst_loops' = [lst_loops EXCEPT ![m] = @ - 1]
    /\ UNCHANGED <<lst_flag, lst_stopped, lst_late, lst_threads>>
    /\ UNCHANGED notLstVars

\* a live loop, route or event of module m builds a message and awaits
\* emit_message, which awaits the handler on the same thread
ModuleEmits(m) ==
    /\ lst_loops[m] > 0
    /\ lst_threads' = lst_threads \cup {ThreadOf(m)}
    /\ lst_late' = [lst_late EXCEPT ![m] = lst_stopped[m]]
    /\ UNCHANGED <<lst_loops, lst_flag, lst_stopped>>
    /\ UNCHANGED notLstVars

\* what stop_listening() leaves of the loops of module m: terminal cancels
\* and awaits its task; wake_word returns at once unless
\* listening_for_wake_word, else cancels and awaits the audio task; web
\* closes the websockets and leaves the server thread alone; discord closes
\* the bot, which ends every bot.start task
LoopsAfterStop(m) ==
    IF m = "web" THEN lst_loops[m]
    ELSE IF m = "wake_word" /\ ~lst_flag[m] THEN lst_loops[m]
    ELSE 0

\* stop_listening() of module m, up to its return
stop_listening(m) ==
    /\ lst_loops' = [lst_loops EXCEPT ![m] = LoopsAfterStop(m)]
    /\ lst_flag' = [lst_flag EXCEPT ![m] = FALSE]
    /\ lst_stopped' = [lst_stopped EXCEPT ![m] = TRUE]
    /\ lst_late' = [lst_late EXCEPT ![m] = FALSE]
    /\ UNCHANGED lst_threads
    /\ UNCHANGED notLstVars

NextListen ==
    \/ \E m \in InputNames, r \in {"ok", "raise"} : start_listening(m, r)
    \/ \E m \in InputNames : LoopEnds(m)
    \/ \E m \in InputNames : ModuleEmits(m)
    \/ \E m \in InputNames : stop_listening(m)

InitListen ==
    /\ EngineIdle
    /\ ListenIdle
    /\ WebIdle
    /\ TermIdle
    /\ OutIdle
    /\ AuxIdle

SpecListen == InitListen /\ [][NextListen]_vars

-----------------------------------------------------------------------------
(* WebInput: the websocket connections and broadcast_to_websockets *)

\* what websocket.send_json does on one connection
SendOutcomes == {"ok", "raise"}

\* who a reply is for: the websocket whose message is answered, or the caller
\* of POST /api/message
ApiClient == "api"

\* the set iterator's test at every next(): the set has another size than
\* when the for loop started ("Set changed size during iteration")
SetChangedSize == Cardinality(websocket_connections) # Cardinality(bc_start)

\* _handle_websocket up to its loop (web_input.py:151-155). It runs on the
\* server's loop, so during a broadcast it runs only while the broadcast
\* awaits a send_json.
Connect(c) ==
    /\ c \notin websocket_connections
    /\ bc_pc = "iter" => bc_visited # {}
    /\ websocket_connections' = websocket_connections \cup {c}
    /\ UNCHANGED <<bc_pc, bc_origin, bc_start, bc_visited, bc_sent, bc_failed,
                   bc_result>>
    /\ UNCHANGED notWebVars

\* _handle_websocket leaving its loop on WebSocketDisconnect: the finally
\* clause discards the connection (web_input.py:174-179). The handler of the
\* connection whose message is being answered is inside
\* _process_websocket_message, not at receive_json.
Disconnect(c) ==
    /\ c \in websocket_connections
    /\ bc_pc = "iter" => (bc_visited # {} /\ c # bc_origin)
    /\ websocket_connections' = websocket_connections \ {c}
    /\ UNCHANGED <<bc_pc, bc_origin, bc_start, bc_visited, bc_sent, bc_failed,
                   bc_result>>
    /\ UNCHANGED notWebVars

\* send_response_to_web(response) for the reply to a message of `origin`
\* (web_input.py:836-844), into broadcast_to_websockets up to the for loop
\* (226-231): with no connection both return at once, otherwise the loop
\* starts over the live set
send_response_to_web(origin) ==
    /\ bc_pc \in {"idle", "done"}
    /\ origin \in websocket_connections \cup {ApiClient}
    /\ bc_origin' = origin
    /\ bc_start' = websocket_connections
    /\ bc_visited' = {}
    /\ bc_failed' = {}
    /\ bc_sent' = [c \in Conns |-> 0]
    /\ IF websocket_connections = {}
          THEN bc_pc' = "done" /\ bc_result' = "returned"
          ELSE bc_pc' = "iter" /\ bc_result' = "none"
    /\ UNCHANGED websocket_connections
    /\ UNCHANGED notWebVars

\* one turn of the loop of broadcast_to_websockets (web_input.py:232-237):
\* the iterator yields a connection not seen yet, send_json is awaited, a
\* failure is caught and the connection noted
BroadcastSend(c, outcome) ==
    /\ bc_pc = "iter"
    /\ ~SetChangedSize
    /\ c \in websocket_connections \ bc_visited
    /\ bc_visited' = bc_visited \cup {c}
    /\ bc_sent' = [bc_sent EXCEPT ![c] = @ + 1]
    /\ bc_failed' = IF outcome = "raise" THEN bc_failed \cup {c} ELSE bc_failed
    /\ UNCHANGED <<websocket_connections, bc_pc, bc_origin, bc_start,
                   bc_result>>
    /\ UNCHANGED notWebVars

\* the loop ends and the failed connections are removed
\* (web_input.py:239-240). A set of the same size with other members than at
\* the start is iterated in an unspecified way: the iterator may be exhausted
\* before every member was yielded.
BroadcastReturn ==
    /\ bc_pc = "iter"
    /\ ~SetChangedSize
    /\ \/ websocket_connections \ bc_visited = {}
       \/ websocket_connections # bc_start
    /\ websocket_connections' = websocket_connections \ bc_failed
    /\ bc_pc' = "done"
    /\ bc_result' = "returned"
    /\ UNCHANGED <<bc_origin, bc_start, bc_visited, bc_sent, bc_failed>>
    /\ UNCHANGED notWebVars

\* next() on the iterator of a set that changed size raises RuntimeError
\* outside the try of the loop body: broadcast_to_websockets is left at once,
\* nothing more is sent and nothing is removed
BroadcastRaise ==
    /\ bc_pc = "iter"
    /\ SetChangedSize
    /\ bc_pc' = "done"
    /\ bc_result' = "raised"
    /\ UNCHANGED <<websocket_connections, bc_origin, bc_start, bc_visited,
                   bc_sent, bc_failed>>
    /\ UNCHANGED notWebVars

NextWeb ==
    \/ \E c \in Conns : Connect(c)
    \/ \E c \in Conns : Disconnect(c)
    \/ \E origin \in Conns \cup {ApiClient} : send_response_to_web(origin)
    \/ \E c \in Conns, outcome \in SendOutcomes : BroadcastSend(c, outcome)
    \/ BroadcastReturn
    \/ BroadcastRaise

InitWeb ==
    /\ EngineIdle
    /\ ListenIdle
    /\ WebIdle
    /\ TermIdle
    /\ OutIdle
    /\ AuxIdle

SpecWeb == InitWeb /\ [][NextWeb]_vars

-----------------------------------------------------------------------------
(* Output modules: initialize, send_message, cleanup *)

\* what OutputModule.initialize finds: the terminal output always succeeds,
\* the TTS fails without its model file or without Piper
InitializeOutcomes(m) ==
    IF m = "terminal_output" THEN {"ok"} ELSE {"ok", "failed"}

\* what rendering does once the module accepted the message: print or
\* synthesis and playback work, or raise inside the try
RenderOutcomes == {"ok", "raise"}

\* the content of the message to render: some text, or nothing but blanks
Contents == {"text", "blank"}

\* the message types the module renders: the TTS speaks TEXT and ERROR only
\* (glados_tts.py:126-128), the terminal prints every type
Renders(m, message_type) ==
    m = "terminal_output" \/ message_type \in {TEXT, ERROR}

\* the test send_message starts with
NotActiveAlwaysFalse(m) == FALSE

\* `if not self.is_active: return False`
NotActive(m) == ~out_active[m]

\* initialize() (terminal_output.py:53-63, glados_tts.py:40-89): is_active
\* becomes True on success and is left alone on failure
initialize(m, outcome) ==
    /\ outcome \in InitializeOutcomes(m)
    /\ IF outcome = "ok"
          THEN /\ out_active' = [out_active EXCEPT ![m] = TRUE]
               /\ out_cleaned' = [out_cleaned EXCEPT ![m] = FALSE]
          ELSE UNCHANGED <<out_active, out_cleaned>>
    /\ UNCHANGED <<out_sends, out_last>>
    /\ UNCHANGED notOutVars

\* what one send_message call does (terminal_output.py:65-83,
\* glados_tts.py:118-162): returned value, whether something was printed or
\* played, whether an exception left the call
SendResult(m, message_type, content, outcome) ==
    IF NotActive(m)
    THEN [returned |-> FALSE, rendered |-> FALSE]
    ELSE IF ~Renders(m, message_type)
    THEN [returned |-> FALSE, rendered |-> FALSE]
    ELSE IF m = "tts_glados" /\ content = "blank"
    THEN [returned |-> TRUE, rendered |-> FALSE]
    ELSE IF outcome = "ok"
    THEN [returned |-> TRUE, rendered |-> TRUE]
    ELSE [returned |-> FALSE, rendered |-> FALSE]

send_message(m, message_type, content, outcome) ==
    /\ out_sends[m] < MaxSends
    /\ out_sends' = [out_sends EXCEPT ![m] = @ + 1]
    /\ LET r == SendResult(m, message_type, content, outcome)
       IN out_last' = [module |-> m,
                       returned |-> r.returned,
                       rendered |-> r.rendered,
                       raised |-> FALSE,
                       active |-> out_active[m],
                       cleaned |-> out_cleaned[m]]
    /\ UNCHANGED <<out_active, out_cleaned>>
    /\ UNCHANGED notOutVars

\* cleanup() (terminal_output.py:150-153, glados_tts.py:328-350): is_active
\* is cleared first
cleanup(m) ==
    /\ out_active' = [out_active EXCEPT ![m] = FALSE]
    /\ out_cleaned' = [out_cleaned EXCEPT ![m] = TRUE]
    /\ UNCHANGED <<out_sends, out_last>>
    /\ UNCHANGED notOutVars

NextOut ==
    \/ \E m \in OutputNames, outcome \in {"ok", "failed"} :
          initialize(m, outcome)
    \/ \E m \in OutputNames, message_type \in {TEXT, VOICE, ERROR},
          content \in Contents, outcome \in RenderOutcomes :
          send_message(m, message_type, content, outcome)
    \/ \E m \in OutputNames : cleanup(m)

InitOut ==
    /\ EngineIdle
    /\ ListenIdle
    /\ WebIdle
    /\ TermIdle
    /\ OutIdle
    /\ AuxIdle

SpecOut == InitOut /\ [][NextOut]_vars

-----------------------------------------------------------------------------
(* TerminalInput: the input loop and the history.  A line of text is a    *)
(* sequence of characters.                                                 *)

\* the characters str.strip() removes at both ends
Whitespace == {" ", "\t"}

UpperCase == <<"A", "B", "C", "D", "E", "F", "G", "H", "I", "J", "K", "L", "M",
               "N", "O", "P", "Q", "R", "S", "T", "U", "V", "W", "X", "Y", "Z">>

LowerCase == <<"a", "b", "c", "d", "e", "f", "g", "h", "i", "j", "k", "l", "m",
               "n", "o", "p", "q", "r", "s", "t", "u", "v", "w", "x", "y", "z">>

\* str.lower() on one character
LowerChar(ch) ==
    IF \E i \in DOMAIN UpperCase : UpperCase[i] = ch
       THEN LowerCase[CHOOSE i \in DOMAIN UpperCase : UpperCase[i] = ch]
       ELSE ch

\* str.lower()
Lower(s) == [i \in DOMAIN s |-> LowerChar(s[i])]

RECURSIVE LStrip(_)
LStrip(s) ==
    IF s # <<>> /\ Head(s) \in Whitespace THEN LStrip(Tail(s)) ELSE s

RECURSIVE RStrip(_)
RStrip(s) ==
    IF s # <<>> /\ s[Len(s)] \in Whitespace
       THEN RStrip(SubSeq(s, 1, Len(s) - 1))
       ELSE s

\* str.strip()
StripLine(s) == RStrip(LStrip(s))

\* the lines a user types at the prompt
Lines ==
    { <<>>,
      <<" ", "\t">>,
      <<" ", "h", "i", " ">>,
      <<"a", " ", "b">>,
      <<"Q", " ">>,
      <<"E", "x", "i", "t">>,
      <<"q", "u", "i", "t">>,
      <<"h", "e", "l", "p">>,
      <<"?">>,
      <<" ", "T", "E", "S", "T">>,
      <<"c", "l", "e", "a", "r">>,
      <<"h", "i", "s", "t", "o", "r", "y">> }

\* the commands _add_to_history is called with directly
Commands ==
    { <<>>,
      <<"h", "i", "s", "t", "o", "r", "y">>,
      <<"c", "l", "e", "a", "r">>,
      <<"h", "e", "l", "p">>,
      <<"h", "i">>,
      <<"l", "s">> }

\* ['exit', 'quit', 'q']
ExitCommands == { <<"e", "x", "i", "t">>, <<"q", "u", "i", "t">>, <<"q">> }

\* ['help', '?'], 'test', 'clear': handled by the loop and skipped
LocalCommands ==
    { <<"h", "e", "l", "p">>, <<"?">>, <<"t", "e", "s", "t">>,
      <<"c", "l", "e", "a", "r">> }

\* ['history', 'clear', 'help']: never recorded in the history
Unrecorded ==
    { <<"h", "i", "s", "t", "o", "r", "y">>, <<"c", "l", "e", "a", "r">>,
      <<"h", "e", "l", "p">> }

\* the command tests of the loop compare the input as typed
IsCommandAsTyped(user_input, commands) == user_input \in commands

\* `user_input.lower() in [...]`
IsCommand(user_input, commands) == Lower(user_input) \in commands

\* the GLaDOSMessage _process_input builds (terminal_input.py:174-182)
TerminalMessage(user_input) ==
    [content |-> user_input, message_type |-> TEXT, source |-> "terminal"]

\* emit_message: every subscribed handler is called once, in subscription
\* order (interfaces.py:90-99)
EmitCalls(message) ==
    [i \in DOMAIN term_handlers |->
        [handler |-> term_handlers[i],
         content |-> message.content,
         message_type |-> message.message_type,
         source |-> message.source]]

\* `self.history.pop()` in place of pop(0)
DropNewest(h) == SubSeq(h, 1, Len(h) - 1)

\* `self.history.pop(0)`
DropOldest(h) == Tail(h)

\* `if command and command not in ['history', 'clear', 'help']`
Recorded(command) == command # <<>> /\ command \notin Unrecorded

\* the append of _add_to_history makes the history longer than history_size
Overflows(command) == Recorded(command) /\ Len(history) + 1 > history_size

\* self.history after _add_to_history(command) (terminal_input.py:198-204)
_add_to_history(command) ==
    IF ~Recorded(command) THEN history
    ELSE IF Overflows(command) THEN DropOldest(Append(history, command))
    ELSE Append(history, command)

\* TerminalInput.initialize (terminal_input.py:38-48)
InitializeTerminal ==
    /\ ~term_active
    /\ term_active' = TRUE
    /\ UNCHANGED <<term_handlers, term_line, term_calls, term_count, history,
                   history_size, history_dropped>>
    /\ UNCHANGED notTermVars

\* subscribe_to_messages on the terminal module (interfaces.py:82-84)
SubscribeTerminal(h) ==
    /\ Len(term_handlers) < MaxSubscribers
    /\ term_handlers' = Append(term_handlers, h)
    /\ UNCHANGED <<term_active, term_line, term_calls, term_count, history,
                   history_size, history_dropped>>
    /\ UNCHANGED notTermVars

\* one turn of _terminal_loop on the line read (terminal_input.py:87-136)
_terminal_loop(line) ==
    /\ term_active
    /\ term_count < MaxLines
    /\ history_dropped < MaxDrops
    /\ term_count' = term_count + 1
    /\ term_line' = line
    /\ LET user_input == StripLine(line)
       IN IF user_input = <<>>
          THEN /\ term_calls' = <<>>
               /\ UNCHANGED <<term_active, history, history_dropped>>
          ELSE IF IsCommand(user_input, ExitCommands)
          THEN /\ term_active' = FALSE
               /\ term_calls' = <<>>
               /\ UNCHANGED <<history, history_dropped>>
          ELSE IF IsCommand(user_input, LocalCommands)
          THEN /\ term_calls' = <<>>
               /\ UNCHANGED <<term_active, history, history_dropped>>
          ELSE /\ history' = _add_to_history(user_input)
               /\ history_dropped' =
                     IF Overflows(user_input) THEN history_dropped + 1
                     ELSE history_dropped
               /\ term_calls' = EmitCalls(TerminalMessage(user_input))
               /\ UNCHANGED term_active
    /\ UNCHANGED <<term_handlers, history_size>>
    /\ UNCHANGED notTermVars

\* _add_to_history(command) called on the module
AddToHistory(command) ==
    /\ history_dropped < MaxDrops
    /\ history' = _add_to_history(command)
    /\ history_dropped' =
          IF Overflows(command) THEN history_dropped + 1 ELSE history_dropped
    /\ UNCHANGED <<term_active, term_handlers, term_line, term_calls,
                   term_count, history_size>>
    /\ UNCHANGED notTermVars

NextTerm ==
    \/ InitializeTerminal
    \/ \E h \in Handlers : SubscribeTerminal(h)
    \/ \E line \in Lines : _terminal_loop(line)
    \/ \E command \in Commands : AddToHistory(command)

\* a TerminalInput as constructed, with the history_size of its configuration
InitTerm ==
    /\ EngineIdle
    /\ ListenIdle
    /\ WebIdle
    /\ OutIdle
    /\ AuxIdle
    /\ term_active = FALSE
    /\ term_handlers = <<>>
    /\ term_line = <<>>
    /\ term_calls = <<>>
    /\ term_count = 0
    /\ history = <<>>
    /\ history_size \in 0..MaxHistorySize
    /\ history_dropped = 0

SpecTerm == InitTerm /\ [][NextTerm]_vars

-----------------------------------------------------------------------------
(* TapoAdapter: several instances and the module-level DEVICE_TYPE_MAPPING *)

\* config['devices'] of the configurations a TapoAdapter is built from:
\* device id -> type
TapoConfigs ==
    [salon |-> [prise |-> "P110", lampe |-> "L530"],
     chambre |-> [lampe |-> "L530", veilleuse |-> "L530", radio |-> "X10"]]

\* keyword arguments tried on validate_parameters and execute
TapoCallParams ==
    [device_name : {"prise", "lampe", "veilleuse", "inconnu"},
     action : {"on", "get_info", "dance"}]

\* what _update_device_type_mapping leaves in DEVICE_TYPE_MAPPING for the
\* devices of one configuration: the entries whose type TapoDeviceType knows
\* (tapo_adapter.py:268-275)
MappingOf(devices) ==
    [d \in {x \in DOMAIN devices : devices[x] \in TapoDeviceType} |->
        devices[d]]

\* TapoAdapter.__init__ (tapo_adapter.py:234-258) with credentials present:
\* self.devices is taken from the configuration, then
\* _update_device_type_mapping clears the module-level dict and fills it from
\* this instance's devices (260-277)
TapoAdapterInit(a, c) ==
    /\ tapo_devices[a] = "none"
    /\ tapo_devices' = [tapo_devices EXCEPT ![a] = c]
    /\ tapo_mapping' = MappingOf(TapoConfigs[c])
    /\ UNCHANGED tapo_last
    /\ UNCHANGED notTapoVars

\* `TapoUnifiedParameters(**kwargs)`: the name is bound to a typing.Union
\* (tapo_adapter.py:202-210), and calling a typing.Union raises TypeError
\* ("Cannot instantiate typing.Union") whatever the arguments
TapoUnifiedParameters(p) == [ok |-> FALSE, error |-> "TypeError"]

\* TapoAdapter.validate_parameters (tapo_adapter.py:667-674): True when the
\* call of TapoUnifiedParameters returns, False when it raises
validate_parameters(a, p) ==
    /\ tapo_devices[a] # "none"
    /\ tapo_last' = [instance |-> a, op |-> "validate_parameters",
                     device_name |-> p.device_name, action |-> p.action,
                     valid |-> TapoUnifiedParameters(p).ok]
    /\ UNCHANGED <<tapo_mapping, tapo_devices>>
    /\ UNCHANGED notTapoVars

\* the model class execute selects for on / off / toggle / get_info and its
\* validator validate_device_exists, which looks the device up in the
\* module-level DEVICE_TYPE_MAPPING (tapo_adapter.py:57-66, 316-323, 340)
ExecuteValidates(p) ==
    /\ p.action \in {"on", "off", "toggle", "get_info"}
    /\ p.device_name \in DOMAIN tapo_mapping

\* TapoAdapter.execute up to the device lookup in self.devices
\* (tapo_adapter.py:300-351)
TapoExecute(a, p) ==
    /\ tapo_devices[a] # "none"
    /\ tapo_last' = [instance |-> a, op |-> "execute",
                     device_name |-> p.device_name, action |-> p.action,
                     valid |-> /\ ExecuteValidates(p)
                               /\ p.device_name \in
                                     DOMAIN TapoConfigs[tapo_devices[a]]]
    /\ UNCHANGED <<tapo_mapping, tapo_devices>>
    /\ UNCHANGED notTapoVars

NextTapo ==
    \/ \E a \in TapoInstances, c \in DOMAIN TapoConfigs : TapoAdapterInit(a, c)
    \/ \E a \in TapoInstances, p \in TapoCallParams : validate_parameters(a, p)
    \/ \E a \in TapoInstances, p \in TapoCallParams : TapoExecute(a, p)

InitTapo ==
    /\ EngineIdle
    /\ ModulesIdle

SpecTapo == InitTapo /\ [][NextTapo]_vars

-----------------------------------------------------------------------------
(* The engine's stop() when initialize() constructed tool adapters *)

\* the engine after a successful initialize() on a Raspberry Pi with every
\* tool enabled: _initialize_tools constructed the four adapters
\* (react_engine.py:158-199), IROsramAdapter.__init__ opened its GPIO chip
InitStop ==
    /\ input_modules = {"terminal", "web"}
    /\ output_modules \in {{}, {"terminal_output"}}
    /\ config_outputs = [x \in InputNames |-> NoEntry]
    /\ tasks = <<>>
    /\ dispatched = <<>>
    /\ init_pc = "done"
    /\ init_result = "true"
    /\ llm = "built"
    /\ agent = "built"
    /\ tool_registry = ToolNames
    /\ ir_hardware = TRUE
    /\ tools_config = [t \in ToolNames |->
                          [enabled |-> TRUE, credentials |-> TRUE]]
    /\ inputs_enabled = input_modules
    /\ outputs_enabled = output_modules
    /\ tool_adapters = [t \in ToolNames |->
                           [built |-> TRUE, remote |-> RemoteAfterInit(t)]]
    /\ tools = ToolOrder
    /\ tool_errors = {}
    /\ init_error = "none"
    /\ factories_registry = {}
    /\ init_false = {}
    /\ ToolsIdle
    /\ ModulesIdle
    /\ FactoriesIdle
    /\ LifeIdle
    /\ EmitIdle
    /\ cln_attr = [o \in CleanupOwners |-> o = "ir_osram"]
    /\ cln_handle = [o \in CleanupOwners |->
                        IF o = "ir_osram" THEN "open" ELSE "none"]
    /\ cln_releases = [o \in CleanupOwners |-> 0]
    /\ cln_calls = [o \in CleanupOwners |-> 0]
    /\ cln_raised = [o \in CleanupOwners |-> FALSE]

\* start(), stop() and shutdown() as in SpecLife: none of them touches
\* self.tool_adapters
SpecStop == InitStop /\ [][NextLife]_vars

-----------------------------------------------------------------------------
(* GLaDOSApplication: run() waiting for the shutdown event, the terminal's *)
(* exit command, shutdown() and the tasks it cancels                       *)

\* the tasks the input modules create in start_listening
ModuleTasks == {"terminal_loop", "discord_bot", "wake_word_audio"}

\* the handlers subscribed to the terminal module's events: subscribe_to_events
\* (interfaces.py:86-88) is called nowhere, _initialize_input_modules
\* subscribes to messages only (react_engine.py:229-275)
TerminalEventHandlers == <<>>

\* what the prompt gets: an exit command (exit, quit, q) or another line
TypedKinds == {"exit", "other"}

\* how the engine.stop() awaited by shutdown() ends within 5 seconds
StopOutcomes == {"returned", "timeout"}

\* a signal handler installed by _setup_signal_handlers runs (main.py:70-83)
Signal ==
    /\ run_pc \in {"waiting", "stopping"}
    /\ ~shutdown_event
    /\ shutdown_event' = TRUE
    /\ UNCHANGED <<run_pc, app_tasks, typed, exit_requested, event_calls,
                   stop_invoked, cancelled, shutdown_result>>
    /\ UNCHANGED notAppVars

\* one turn of _terminal_loop seen from the application
\* (terminal_input.py:104-120): on an exit command the loop clears is_active,
\* emits terminal_exit_requested to the event handlers and ends
TerminalReads(kind) ==
    /\ "terminal_loop" \in app_tasks
    /\ "terminal_loop" \notin cancelled
    /\ typed < MaxTyped
    /\ typed' = typed + 1
    /\ IF kind = "exit"
          THEN /\ exit_requested' = TRUE
               /\ event_calls' = event_calls + Len(TerminalEventHandlers)
               /\ app_tasks' = app_tasks \ {"terminal_loop"}
          ELSE UNCHANGED <<exit_requested, event_calls, app_tasks>>
    /\ UNCHANGED <<run_pc, shutdown_event, stop_invoked, cancelled,
                   shutdown_result>>
    /\ UNCHANGED notAppVars

\* run() wakes from `await self._shutdown_event.wait()` and its finally
\* clause calls shutdown(), which calls engine.stop() under wait_for
\* (main.py:103-127)
RunWakes ==
    /\ run_pc = "waiting"
    /\ shutdown_event
    /\ run_pc' = "stopping"
    /\ stop_invoked' = TRUE
    /\ UNCHANGED <<shutdown_event, app_tasks, typed, exit_requested,
                   event_calls, cancelled, shutdown_result>>
    /\ UNCHANGED notAppVars

\* `[task for task in asyncio.all_tasks() if not task.done()]`: every task
\* that is not done, the running one included (main.py:142)
TasksToCancel == app_tasks

\* engine.stop() returned or timed out; the finally clause of shutdown() sets
\* the event and calls cancel() on the tasks it collected (main.py:133-146).
\* A stop() that returned has cleaned the modules up, which ends their tasks.
StopEnds(outcome) ==
    /\ run_pc = "stopping"
    /\ run_pc' = "cancelling"
    /\ shutdown_event' = TRUE
    /\ LET left == IF outcome = "returned" THEN {MainTask} ELSE app_tasks
       IN  /\ app_tasks' = left
           /\ cancelled' = IF outcome = "returned"
                           THEN TasksToCancel \cap left
                           ELSE TasksToCancel
    /\ UNCHANGED <<typed, exit_requested, event_calls, stop_invoked,
                   shutdown_result>>
    /\ UNCHANGED notAppVars

\* `await asyncio.wait_for(asyncio.gather(*tasks, ...), timeout=2.0)`
\* (main.py:148-151): a task on which cancel() was called gets CancelledError
\* at its next await, and this await is the next one of the task that runs
\* shutdown()
ShutdownFinishes ==
    /\ run_pc = "cancelling"
    /\ run_pc' = "ended"
    /\ shutdown_result' = IF MainTask \in cancelled THEN "cancelled"
                          ELSE "returned"
    /\ app_tasks' = IF MainTask \in cancelled THEN {} ELSE {MainTask}
    /\ UNCHANGED <<shutdown_event, typed, exit_requested, event_calls,
                   stop_invoked, cancelled>>
    /\ UNCHANGED notAppVars

NextApp ==
    \/ Signal
    \/ \E kind \in TypedKinds : TerminalReads(kind)
    \/ RunWakes
    \/ \E outcome \in StopOutcomes : StopEnds(outcome)
    \/ ShutdownFinishes

\* run() has started the engine and waits for the shutdown event
\* (main.py:93-105); the terminal loop runs, other module tasks may
InitApp ==
    /\ EngineIdle
    /\ ListenIdle
    /\ WebIdle
    /\ TermIdle
    /\ OutIdle
    /\ TapoIdle
    /\ WakeIdle
    /\ run_pc = "waiting"
    /\ shutdown_event = FALSE
    /\ \E ts \in SUBSET ModuleTasks :
          /\ "terminal_loop" \in ts
          /\ app_tasks = {MainTask} \cup ts
    /\ typed = 0
    /\ exit_requested = FALSE
    /\ event_calls = 0
    /\ stop_invoked = FALSE
    /\ cancelled = {}
    /\ shutdown_result = "none"

SpecApp == InitApp /\ [][NextApp]_vars

\* the event loop keeps running the application's own coroutines; nothing
\* makes the user type or a signal arrive
SpecAppFair ==
    /\ SpecApp
    /\ WF_vars(RunWakes)
    /\ WF_vars(\E outcome \in StopOutcomes : StopEnds(outcome))
    /\ WF_vars(ShutdownFinishes)

-----------------------------------------------------------------------------
(* WakeWordInput: one audio frame at a time *)

\* silence frames after which the recording is finalized
\* (int(min_silence_duration * sample_rate / len(pcm)) in the code)
SilenceFramesThreshold == 2

\* what Porcupine says of a frame in detection mode
DetectionOutcomes == {"keyword", "nothing"}

\* what a frame is in recording mode: Vosk completes an utterance with a
\* text, the frame is silent, the frame is loud, the maximal duration is
\* over, or the processing raises
RecordingOutcomes == {"utterance", "silent", "loud", "too_long", "raise"}

\* the text of recognizer.FinalResult(): some words or nothing
FinalTexts == {"text", ""}

\* _finalize_speech_recording (wake_word_input.py:303-324): one Message when
\* FinalResult has a text, then _stop_speech_recording in the finally clause
Finalize(final_text) ==
    /\ wake_emitted' = (final_text # "")
    /\ wake_msgs' = IF final_text # "" THEN wake_msgs + 1 ELSE wake_msgs
    /\ recording_speech' = FALSE

\* one turn of _process_audio_pvrecorder (wake_word_input.py:170-187) on a
\* frame: _process_wake_word_detection in detection mode (218-236),
\* _process_speech_recording in recording mode (249-273)
ProcessFrame(detection, recording, final_text) ==
    /\ wake_frames < MaxFrames
    /\ wake_frames' = wake_frames + 1
    /\ IF ~recording_speech
       THEN IF detection = "keyword"
            THEN \* _start_speech_recording
                 /\ recording_speech' = TRUE
                 /\ silence_frame_count' = 0
                 /\ wake_msgs' = 0
                 /\ wake_emitted' = FALSE
            ELSE /\ wake_emitted' = FALSE
                 /\ UNCHANGED <<recording_speech, silence_frame_count,
                                wake_msgs>>
       ELSE IF recording = "utterance"
            THEN \* AcceptWaveform is true and the text is not empty:
                 \* _handle_speech_result emits the Message, then `return`
                 /\ wake_emitted' = TRUE
                 /\ wake_msgs' = wake_msgs + 1
                 /\ UNCHANGED <<recording_speech, silence_frame_count>>
            ELSE IF recording = "raise"
            THEN \* except Exception: _stop_speech_recording
                 /\ recording_speech' = FALSE
                 /\ wake_emitted' = FALSE
                 /\ UNCHANGED <<silence_frame_count, wake_msgs>>
            ELSE IF recording = "too_long"
            THEN /\ Finalize(final_text)
                 /\ UNCHANGED silence_frame_count
            ELSE \* _check_recording_stop_conditions on a silent or loud frame
                 LET count == IF recording = "silent"
                              THEN silence_frame_count + 1 ELSE 0
                 IN  /\ silence_frame_count' = count
                     /\ IF count >= SilenceFramesThreshold
                        THEN Finalize(final_text)
                        ELSE /\ wake_emitted' = FALSE
                             /\ UNCHANGED <<recording_speech, wake_msgs>>
    /\ UNCHANGED notWakeVars

NextWake ==
    \E detection \in DetectionOutcomes, recording \in RecordingOutcomes,
       final_text \in FinalTexts :
          ProcessFrame(detection, recording, final_text)

InitWake ==
    /\ EngineIdle
    /\ ModulesIdle

SpecWake == InitWake /\ [][NextWake]_vars

-----------------------------------------------------------------------------
(* Claims about message handling, checked under Spec *)

Done(i) == tasks[i].pc = "done"

\* C1: if the reasoning agent raises while a query is processed, the handler
\* completes without raising and the reply handed to _send_response has kind
\* ERROR.
C1_AgentFailureGivesErrorReply ==
    \A i \in 1..Len(tasks) :
        tasks[i].agent = "raise" =>
            /\ ~tasks[i].escaped
            /\ tasks[i].reply.message_type = ERROR

\* C2: with an explicit outputs list configured for the originating source, the
\* reply is delivered to exactly the active modules of that list and to no
\* other output module.
C2_ExplicitOutputsExactly ==
    \A i \in 1..Len(tasks) :
        (/\ Done(i)
         /\ config_outputs[tasks[i].source].present
         /\ config_outputs[tasks[i].source].names # <<>>) =>
            Range(tasks[i].invoked) =
                Range(config_outputs[tasks[i].source].names) \cap output_modules

\* C3: with no outputs entry configured for the originating source, the reply is
\* delivered to every module of the active output map, whatever the source.
C3_NoEntryBroadcasts ==
    \A i \in 1..Len(tasks) :
        (Done(i) /\ ~config_outputs[tasks[i].source].present) =>
            Range(tasks[i].invoked) = output_modules

\* C4: if send_message of one selected output module raises, send_message is
\* still invoked on every other selected module, and _send_response does not
\* raise.
C4_SendFailureContained ==
    \A i \in 1..Len(tasks) :
        /\ ~tasks[i].escaped
        /\ Done(i) => tasks[i].invoked = tasks[i].selected

\* C4 witness: the first of two selected modules raised and the second was
\* still invoked.
C4_Witness ==
    \E i \in 1..Len(tasks) :
        /\ Done(i)
        /\ Len(tasks[i].selected) = 2
        /\ tasks[i].selected[1] \in tasks[i].failed
        /\ tasks[i].invoked = tasks[i].selected

\* C5: the replies to the messages of one input module (terminal, wake-word,
\* web) are dispatched in the order the messages were emitted.
C5_RepliesInEmissionOrder ==
    \A j, k \in 1..Len(dispatched) :
        (/\ j < k
         /\ tasks[dispatched[j]].source = tasks[dispatched[k]].source
         /\ tasks[dispatched[j]].source \in {"terminal", "wake_word", "web"})
            => dispatched[j] < dispatched[k]

\* C6: at every moment at most one agent query (agent.run) is in flight.
C6_OneQueryInFlight ==
    Cardinality({i \in 1..Len(tasks) : tasks[i].pc = "agent"}) <= 1

-----------------------------------------------------------------------------
(* Claims about the tool adapters, checked under SpecTool *)

\* C7: whatever the adapter (Tapo, weather, IR Osram, IR Yamaha), an execute
\* call given invalid parameters, or whose underlying action raises, never
\* raises and returns a dict with success false and a non-empty error string.
C7_FailureAlwaysExplained ==
    /\ result.status # "raised"
    /\ (result.status = "returned" /\ ~result.success) => result.error # ""

\* C8: in an execute call whose parameters fail validation, nothing is done
\* outside the process: no API client is created, no device or service is
\* contacted and no IR signal is sent.  Stated on every state of a call:
\* an effect is only ever recorded once the parameters passed validation.
C8_NoEffectWithoutValidParams ==
    validated # "ok" => effects = <<>>

\* C8, witness: a call on an operational Tapo adapter that has no client yet
\* returned a failure because its parameters were rejected, and did nothing.
C8_Witness ==
    /\ call.adapter = "tapo"
    /\ validated = "failed"
    /\ result.status = "returned"
    /\ ~result.success
    /\ ~tapo_client
    /\ effects = <<>>

-----------------------------------------------------------------------------
(* Claims about initialize(), checked under SpecInit *)

\* C9: a tool adapter that cannot initialize on the platform (an IR adapter
\* off a Raspberry Pi) is absent from the catalog: every callable of the
\* catalog belongs to an enabled adapter whose initialization completed,
\* which for an IR adapter means that its remote was built.
C9_CatalogOnlyInitializedAdapters ==
    \A k \in 1..Len(tools) :
        /\ tools_config[tools[k]].enabled
        /\ tool_adapters[tools[k]].built
        /\ (tools[k] \in IRTools => tool_adapters[tools[k]].remote)

\* C10: initialize() returns true whenever the LLM backend and the agent are
\* built, even when the construction of an enabled tool adapter raises: the
\* failure of a tool never reaches the except clause of initialize(), the
\* tool is logged and skipped, and every other enabled tool is still handled
\* (in the catalog, or logged in its turn).
C10_ToolFailureDoesNotFailInitialize ==
    init_pc = "done" =>
        /\ init_result = (IF llm = "built" /\ agent = "built"
                          THEN "true" ELSE "false")
        /\ init_error # "tools"
        /\ llm = "built" =>
              \A t \in ToolNames :
                 /\ tools_config[t].enabled =>
                       (t \in Range(tools) \/ t \in tool_errors)
                 /\ (tools_config[t].enabled /\ t \in tool_registry
                        /\ ~ConstructorRaises(t)) => tool_adapters[t].built

\* C10, witness: initialize() returned true although the registered, enabled
\* Tapo adapter raised in its constructor, and the weather tool, which comes
\* later in the configuration, is in the catalog.
C10_Witness ==
    /\ init_pc = "done"
    /\ init_result = "true"
    /\ tools_config["tapo"].enabled
    /\ "tapo" \in tool_registry
    /\ ConstructorRaises("tapo")
    /\ "tapo" \in tool_errors
    /\ "weather" \in Range(tools)

\* C11: every tool type registered at process start by register_all_tools is
\* resolvable by the create call of _initialize_tools: once initialize() has
\* returned true, each enabled tool whose type register_all_tools registered
\* and whose constructor succeeds (and whose FunctionTool could be built) has
\* exactly one callable in the catalog.
C11_RegisteredToolsInCatalog ==
    (init_pc = "done" /\ init_result = "true") =>
        \A t \in factories_registry :
            (/\ tools_config[t].enabled
             /\ ~ConstructorRaises(t)
             /\ ~(tool_adapters[t].built /\ t \in tool_errors))
            => Cardinality({k \in 1..Len(tools) : tools[k] = t}) = 1

\* C13: a module whose initialize() returned False is never registered as
\* active: it is in neither of the engine's input_modules / output_modules
\* maps.
C13_FailedInitializeNotActive ==
    init_false \cap (input_modules \cup output_modules) = {}

\* an entry of the configuration that create_modules_from_config gave up on
FacFailed(a) == fac_seen[a] \in {"unknown_type", "ctor_raised", "init_raise"}

\* C12: create_modules_from_config never raises, and the map it returns
\* holds exactly the enabled entries that did not fail (unregistered type,
\* constructor raising, initialize raising), each built from its registered
\* class with its attribute name and configuration and with initialize()
\* called; a failing entry is absent.
C12_FactoryKeepsOtherEntries ==
    /\ fac_pc # "raised"
    /\ fac_pc = "returned" =>
          \A a \in Range(FacAttrs) :
             /\ (fac_modules[a] # NoInstance) <=>
                   (fac_config[a].enabled /\ ~FacFailed(a))
             /\ fac_config[a].enabled => fac_seen[a] # "none"
             /\ (fac_config[a].enabled /\ ~FacFailed(a)) =>
                   fac_modules[a] =
                      [class |-> module_registry[fac_config[a].type],
                       name |-> a, config |-> a, initialized |-> TRUE]

\* C12, witness: three enabled entries, exactly one of them failed, and the
\* map returned holds the two others.
C12_Witness ==
    /\ fac_pc = "returned"
    /\ \A a \in Range(FacAttrs) : fac_config[a].enabled
    /\ Cardinality({a \in Range(FacAttrs) : FacFailed(a)}) = 1
    /\ Cardinality({a \in Range(FacAttrs) : fac_modules[a] # NoInstance}) = 2

\* C14: create(key, name, config) on a registered key builds the class
\* registered under that key with (name, config) and returns that instance;
\* on an unregistered key it raises the unknown-type error and constructs
\* nothing.
C14_CreateResolvesRegistry ==
    last_create # NoCreate =>
        IF module_registry[last_create.key] # "none"
        THEN /\ last_create.constructed
             /\ last_create.status \in {"returned", "ctor_raised"}
             /\ last_create.status = "returned" =>
                   last_create.instance =
                      [class |-> module_registry[last_create.key],
                       name |-> last_create.name,
                       config |-> last_create.config,
                       initialized |-> FALSE]
        ELSE /\ last_create.status = "unknown_type"
             /\ ~last_create.constructed
             /\ last_create.instance = NoInstance

\* C14, witness: a create call on a registered key returned an instance
\* whose name differs from the key.
C14_Witness ==
    /\ last_create.status = "returned"
    /\ last_create.key # last_create.name
    /\ last_create.instance.class = "WebInput"

\* C14, witness of the other case: create was called with a key nobody
\* registered while another key was registered.
C14_WitnessUnknown ==
    /\ last_create.status = "unknown_type"
    /\ \E k \in Range(FacAttrs) : module_registry[k] # "none"

-----------------------------------------------------------------------------
(* Claims about start, stop and shutdown (SpecLife, SpecLifeFair) *)

\* a step that is a start() call made while the engine is running
StartWhileRunning == is_running /\ Len(start_log') = Len(start_log) + 1

\* C15: a start() call made while the engine is running calls
\* start_listening on no input module and changes no engine state, and over
\* the consecutive start() calls made since the last stop each input module's
\* start_listening is called exactly once.
C15_StartIdempotent ==
    /\ [](\A m \in input_modules :
             Len(start_log) > 0 =>
                Cardinality({k \in 1..Len(start_log) : m \in start_log[k]}) = 1)
    /\ [][StartWhileRunning =>
             /\ start_log'[Len(start_log')] = {}
             /\ UNCHANGED <<is_running, start_pc, start_tasks, start_result,
                            stop_pc, stop_via, cleanup_tasks, stop_result,
                            stop_log, input_modules, output_modules>>]_vars

\* C15, witness: two start() calls in a row, the second one found the
\* engine running and started nothing.
C15_Witness ==
    /\ is_running
    /\ Len(start_log) = 2
    /\ start_log[1] = input_modules
    /\ start_log[2] = {}

\* C16: start() never raises, and when it has returned every input module's
\* start_listening was called and has ended, whether or not it raised.
C16_StartCollectsFailures ==
    /\ start_result # "raised"
    /\ (start_pc = "idle" /\ start_result = "returned") =>
          \A m \in input_modules : start_tasks[m] \in {"returned", "raised"}

\* C16, witness: start() returned although the start_listening of one input
\* module raised, and the start_listening of another module ran to its end.
C16_Witness ==
    /\ start_pc = "idle"
    /\ start_result = "returned"
    /\ \E m \in input_modules : start_tasks[m] = "raised"
    /\ \E m \in input_modules : start_tasks[m] = "returned"

\* C17: a stop() call that waits for the cleanup coroutines eventually ends,
\* by returning or by being cut off, even if a cleanup never completes.
C17_StopEventuallyEnds == (stop_pc = "awaiting") ~> (stop_pc = "idle")

\* C18: stop() never raises; called while the engine runs it calls cleanup()
\* on every input and every output module, and has returned only after each
\* of them ended, raising or not; while the engine is not running no step
\* starts a cleanup.
C18_StopCleansEveryModule ==
    /\ [](/\ stop_result # "raised"
          /\ stop_log.was_running =>
                /\ stop_log.invoked = input_modules \cup output_modules
                /\ (stop_pc = "idle" /\ stop_result = "returned") =>
                      \A m \in input_modules \cup output_modules :
                         cleanup_tasks[m] \in {"returned", "raised"})
    /\ [][~is_running =>
             \A m \in InputNames \cup OutputNames :
                cleanup_tasks'[m] = "running" => cleanup_tasks[m] = "running"]_vars

\* C18, witness: stop() returned after the cleanup of one module raised and
\* the cleanup of the output module returned.
C18_Witness ==
    /\ stop_pc = "idle"
    /\ stop_result = "returned"
    /\ stop_log.was_running
    /\ \E m \in input_modules : cleanup_tasks[m] = "raised"
    /\ \E m \in output_modules : cleanup_tasks[m] = "returned"

-----------------------------------------------------------------------------
(* Claims about cleanup (SpecCleanup) and emit_message (SpecEmit) *)

\* C19: cleanup() is idempotent for every module and tool adapter: however
\* often it is called, with or without a handle opened before, no call raises
\* and the owner's handle is released at most once.
C19_CleanupIdempotent ==
    \A o \in CleanupOwners : ~cln_raised[o] /\ cln_releases[o] <= 1

\* the handler invocations an emit_message of msg over hs has to make
Deliveries(hs, msg) == [k \in 1..Len(hs) |-> [handler |-> hs[k], message |-> msg]]

\* the handler invocations made, without their outcomes
CallsMade ==
    [k \in 1..Len(handler_calls) |->
        [handler |-> handler_calls[k].handler,
         message |-> handler_calls[k].message]]

\* C20: emit_message never raises; the invocations it has made so far are
\* the first subscriptions, once each with the message and in subscription
\* order, whichever handlers raised; and when it returns it has invoked every
\* subscription.
C20_EmitDeliversToEveryHandler ==
    /\ emit_result # "raised"
    /\ Len(handler_calls) <= Len(message_handlers)
    /\ CallsMade = Deliveries(SubSeq(message_handlers, 1, Len(handler_calls)),
                              emit_msg)
    /\ emit_result = "returned" => Len(handler_calls) = emit_idx - 1

\* the emit_message call has just returned: nobody subscribed since
JustReturned == emit_result = "returned" /\ emit_idx = Len(message_handlers) + 1

\* C20, witness: emit_message returned after three different handlers were
\* invoked, the first of which raised.
C20_Witness ==
    /\ emit_pc = "idle"
    /\ JustReturned
    /\ Len(handler_calls) = 3
    /\ handler_calls[1].outcome = "raise"
    /\ handler_calls[3].outcome = "ok"
    /\ Cardinality({handler_calls[k].handler : k \in 1..3}) = 3

-----------------------------------------------------------------------------
(* Claims about the reply's metadata and the direct reply channel (Spec) *)

\* C23: every reply the engine builds, normal or error notice, carries
\* metadata holding the original message's source and kind and every entry
\* of the original message's metadata.
C23_ReplyKeepsOriginalMetadata ==
    \A i \in 1..Len(tasks) :
       tasks[i].reply.content # "none" =>
          /\ tasks[i].reply.message_type # ERROR
          /\ tasks[i].reply.metadata.original_source = tasks[i].source
          /\ tasks[i].reply.metadata.original_type = MessageTypeOf(tasks[i].source)
          /\ \A k \in DOMAIN tasks[i].metadata :
                /\ k \in DOMAIN tasks[i].reply.metadata
                /\ tasks[i].reply.metadata[k] = tasks[i].metadata[k]

\* C24: once a message whose input module defines send_response has been
\* handled, the engine has called that send_response with the reply's content
\* and the original message's metadata.
C24_DirectReplyHandedOver ==
    \A i \in 1..Len(tasks) :
       (tasks[i].pc = "done" /\ tasks[i].source \in DefinesSendResponse) =>
          \E k \in 1..Len(tasks[i].direct) :
             /\ tasks[i].direct[k].callee = "send_response"
             /\ tasks[i].direct[k].args =
                   <<tasks[i].reply.content, tasks[i].metadata>>

-----------------------------------------------------------------------------
(* Claims about start_listening, stop_listening and threads (SpecListen) *)

\* C21: calling start_listening() on an input module that is already
\* listening starts no second listening loop or background task: no module
\* ever has more than one.
C21_NoSecondListeningLoop ==
    \A m \in InputNames : lst_loops[m] <= 1

\* C22: once stop_listening() has returned on an input module, and until
\* start_listening() is called again, its listening loop has ended and the
\* module emits no message.
C22_NoMessageAfterStop ==
    \A m \in InputNames :
       lst_stopped[m] => (lst_loops[m] = 0 /\ ~lst_late[m])

\* C26: every invocation of the engine's handler runs on the thread of the
\* engine's event loop.
C26_HandlerOnLoopThread ==
    lst_threads \subseteq {LoopThread}

-----------------------------------------------------------------------------
(* Claims about the web module's replies, checked under SpecWeb *)

\* C25: the reply to a message received over one websocket is sent to that
\* connection only, never to another web client.
C25_ReplyOnlyToOrigin ==
    \A c \in Conns : (bc_origin \in Conns /\ bc_sent[c] > 0) => c = bc_origin

\* C30: when broadcast_to_websockets is left, every connection registered at
\* the call was sent the message exactly once, and the connection set holds
\* exactly the connections whose send did not fail.
C30_BroadcastExactlyOnce ==
    [][(bc_pc = "iter" /\ bc_pc' = "done")
         => /\ bc_result' = "returned"
            /\ \A c \in bc_start : bc_sent'[c] = 1
            /\ websocket_connections' = bc_start \ bc_failed']_vars

\* C39: when broadcast_to_websockets is left, every connection that was
\* registered when the broadcast began and is still open was sent the
\* message, whatever was accepted or closed while a send was awaited.
C39_BroadcastReachesOpenConnections ==
    [][(bc_pc = "iter" /\ bc_pc' = "done")
         => \A c \in bc_start \cap websocket_connections :
               bc_sent'[c] >= 1]_vars

-----------------------------------------------------------------------------
(* Claims about the output modules, checked under SpecOut *)

\* C27: after cleanup() of an output module its is_active is false, and a
\* send_message made after it returns False, renders nothing and raises
\* nothing.
C27_NoOutputAfterCleanup ==
    /\ \A m \in OutputNames : out_cleaned[m] => ~out_active[m]
    /\ out_last.cleaned =>
          (~out_last.returned /\ ~out_last.rendered /\ ~out_last.raised)

\* C27 witness: a message was sent to a module after its cleanup(), and the
\* call returned False
C27_Witness ==
    /\ out_last.module \in OutputNames
    /\ out_last.cleaned
    /\ ~out_last.active
    /\ ~out_last.returned

-----------------------------------------------------------------------------
(* Claims about the terminal input, checked under SpecTerm *)

\* C28: for every line read, the terminal input calls every subscriber
\* exactly once with a message whose content is the stripped line, of kind
\* TEXT and with the module's name as source; for an empty line and for a
\* built-in command (exit, quit, q, help, ?, test, clear, in any case) it
\* calls no subscriber.
C28_OneMessagePerAcceptedLine ==
    [][term_count' = term_count + 1 =>
         LET s == StripLine(term_line')
         IN IF s = <<>> \/ Lower(s) \in ExitCommands \cup LocalCommands
            THEN term_calls' = <<>>
            ELSE /\ Len(term_calls') = Len(term_handlers)
                 /\ \A i \in DOMAIN term_handlers :
                       term_calls'[i] = [handler |-> term_handlers[i],
                                         content |-> s,
                                         message_type |-> "text",
                                         source |-> "terminal"]]_vars

\* C28 witness: a line typed with blanks around it was handed, stripped, to
\* two subscribers
C28_Witness ==
    /\ Len(term_handlers) = 2
    /\ term_line = <<" ", "h", "i", " ">>
    /\ Len(term_calls) = 2
    /\ term_calls[1].content = <<"h", "i">>
    /\ term_calls[2].handler = term_handlers[2]

\* C29: the history never holds more than history_size entries, never
\* holds 'history', 'clear', 'help' or an empty command, and every call that
\* changes it or drops an entry appends the new command at the end, dropping
\* the oldest entry, and only that one, exactly when the history was full.
C29_HistoryBounded ==
    /\ [](/\ Len(history) <= history_size
          /\ \A i \in DOMAIN history :
                /\ history[i] # <<>>
                /\ history[i] \notin Unrecorded)
    /\ [][(history' # history \/ history_dropped' # history_dropped) =>
            \E c \in Commands \cup {StripLine(l) : l \in Lines} :
               \/ /\ Len(history) < history_size
                  /\ history' = Append(history, c)
                  /\ history_dropped' = history_dropped
               \/ /\ Len(history) = history_size
                  /\ history' = Tail(Append(history, c))
                  /\ history_dropped' = history_dropped + 1]_vars

\* C29 witness: a history of two entries was full and its oldest entry was
\* dropped for a new one
C29_Witness ==
    /\ history_size = 2
    /\ Len(history) = 2
    /\ history_dropped > 0

-----------------------------------------------------------------------------
(* Claims about the Tapo adapter, checked under SpecTapo *)

\* the devices of a supported type in the configuration of the instance the
\* last call was made on
ConfiguredForLast == DOMAIN MappingOf(TapoConfigs[tapo_devices[tapo_last.instance]])

\* C31: validate_parameters returns true for a configured device name with a
\* valid action, and false for an unconfigured device name or an unknown
\* action.
C31_ValidateParameters ==
    tapo_last.op = "validate_parameters" =>
        (tapo_last.valid <=> /\ tapo_last.device_name \in ConfiguredForLast
                             /\ tapo_last.action \in TapoAction)

\* C32: every device configured for an instance passes validation in that
\* instance's execute, whichever other TapoAdapter instances were constructed
\* in between.
C32_InstancesIndependent ==
    ( /\ tapo_last.op = "execute"
      /\ tapo_last.device_name \in ConfiguredForLast
      /\ tapo_last.action \in {"on", "get_info"} )
    => tapo_last.valid

-----------------------------------------------------------------------------
(* Claims about stop() and the tool adapters, checked under SpecStop *)

\* C33: once stop() has returned, cleanup() was invoked on every tool adapter
\* that initialize() constructed, and none of them still holds an open
\* handle.
C33_ToolAdaptersCleaned ==
    (stop_log.was_running /\ stop_pc = "idle" /\ stop_result = "returned") =>
        \A t \in ToolNames \cap CleanupOwners :
            tool_adapters[t].built =>
                (cln_calls[t] > 0 /\ cln_handle[t] # "open")

-----------------------------------------------------------------------------
(* Claims about the order of initialize(), checked under SpecInit *)

\* C34: initialize() reports success only once the LLM, the tool catalog, the
\* agent and the modules have been set up, one after the other in that
\* order; when building the LLM or the agent raises, initialize() reports
\* failure and no input or output module is in the engine's maps.
C34_InitializeInOrder ==
    /\ [](/\ init_result = "true" =>
                (/\ init_pc = "done"
                 /\ llm = "built"
                 /\ agent = "built"
                 /\ init_error = "none")
          /\ init_error \in {"llm", "agent"} =>
                (/\ init_result = "false"
                 /\ input_modules = {}
                 /\ output_modules = {}))
    /\ [][/\ llm' # llm =>
                (/\ tools = <<>>
                 /\ tool_adapters = [t \in ToolNames |-> NoAdapter]
                 /\ agent = "none"
                 /\ input_modules \cup output_modules = {})
          /\ (tools' # tools \/ tool_adapters' # tool_adapters) =>
                (/\ llm = "built"
                 /\ agent = "none"
                 /\ input_modules \cup output_modules = {})
          /\ agent' # agent =>
                (/\ llm = "built"
                 /\ init_pc = "agent"
                 /\ input_modules \cup output_modules = {})
          /\ (input_modules' # input_modules
                \/ output_modules' # output_modules
                \/ (init_result' = "true" /\ init_result # "true")) =>
                (/\ llm = "built"
                 /\ agent = "built"
                 /\ init_pc = "modules")]_vars

\* C34 witness: the agent could not be built after the LLM and two tools
\* were; initialize() returned False and no configured module was built
C34_Witness ==
    /\ init_pc = "done"
    /\ init_error = "agent"
    /\ init_result = "false"
    /\ llm = "built"
    /\ Len(tools) >= 2
    /\ inputs_enabled # {}
    /\ input_modules \cup output_modules = {}

-----------------------------------------------------------------------------
(* Claims about the fallback of the routing, checked under Spec *)

\* the output modules _send_response names for a source
\* (react_engine.py:362-390)
RoutedFor(original_source) ==
    IF original_source \in {"wake_word", "terminal"}
    THEN {"tts_glados", "terminal_output"}
    ELSE IF original_source = "web" THEN {"terminal_output"}
    ELSE {}

\* C35: when the routing names output modules for the source of a message
\* and none of them is in the engine's output map, the reply is delivered to
\* no output module: there is no fallback to the other active modules.
C35_NoFallbackBroadcast ==
    \A i \in 1..Len(tasks) :
        (/\ Done(i)
         /\ RoutedFor(tasks[i].source) # {}
         /\ RoutedFor(tasks[i].source) \cap output_modules = {}) =>
            tasks[i].invoked = <<>>

-----------------------------------------------------------------------------
(* Claims about the application, checked under SpecApp and SpecAppFair *)

\* C36: after an exit command at the terminal prompt the application
\* eventually shuts down: the shutdown event is set and engine.stop() is
\* invoked.
C36_ExitLeadsToShutdown ==
    exit_requested ~> (shutdown_event /\ stop_invoked)

\* C40: shutdown() never calls cancel() on the task that runs it, and it
\* returns normally whether or not engine.stop() timed out.
C40_ShutdownSparesItself ==
    /\ MainTask \notin cancelled
    /\ run_pc = "ended" => shutdown_result = "returned"

-----------------------------------------------------------------------------
(* Claims about the wake-word module, checked under SpecWake and SpecListen *)

\* C37: when the frame just processed emitted a Message, the module is back
\* in detection mode (recording_speech false) before the next frame, and one
\* wake-word detection yields at most one Message.
C37_OneMessagePerDetection ==
    /\ wake_emitted => ~recording_speech
    /\ wake_msgs <= 1

\* C38: listening_for_wake_word is true only while the audio-processing task
\* is alive, so that start_listening() after the task ended on its own starts
\* a new one.
C38_FlagFollowsTask ==
    lst_flag["wake_word"] => lst_loops["wake_word"] > 0

====
